---- MODULE Spec2Model ----
(***************************************************************************)
(* Adaptive grid / DCA trading bot (victorhsmessias/crypto-bot).           *)
(*                                                                         *)
(* The model covers the strategy engine (GridStrategy.tick), the cycle /   *)
(* position ledger (PositionManagerService), the risk gate                 *)
(* (RiskManagerService) and the timer loop (TradingBot.executeTick).       *)
(*                                                                         *)
(* Numbers.  A Decimal is an integer counting 1/D (D = 1000), so 100.000   *)
(* is 100000 and the percentage 0.015 is 15.  Decimal arithmetic truncates *)
(* toward zero (precision 20, ROUND_DOWN); a JavaScript number, which is   *)
(* what every column of the ledger and every broker field holds, carries   *)
(* fewer digits than a Decimal and rounds to nearest: ToNumber rounds to   *)
(* a multiple of NumGrid.  new Decimal(n.toString()) of a number is exact. *)
(***************************************************************************)
EXTENDS Integers, Sequences, FiniteSets, TLC

VARIABLES
    cfgSellPercent,  \* config.GRID_PARTIAL_SELL_PERCENT, fixed at start-up
    symbols,         \* config.TRADING_SYMBOLS, fixed at start-up
    market,          \* what the broker and the indicator source can answer in this run
    inFlight,        \* executeTick invocations started by the timer, each with the
                     \* position and locals of the tick body it awaits
    isRunning,       \* GridStrategy.isRunning, per symbol
    cycles,          \* ledger: the Cycle rows of each symbol, with their Position rows
    botState,        \* ledger: the BotState row of each scope
    indicatorService, \* IndicatorService: its cache and its requestTimestamps
    calls,           \* the clock, the getIndicatorSnapshot call of each symbol and the
                     \* requests that went out to the indicator source
    buyCheck,        \* a canExecuteBuy call on its own: its arguments, the broker's
                     \* answers, and what it returned and asked once it has run
    entryCheck,      \* the entry decision on its own: a price, a snapshot and a
                     \* balance, and what evaluateEntry and evaluateSearching made
                     \* of them once they have run
    externalRead     \* an external read on its own: the call, what the source does
                     \* at each attempt, the attempt it is at and the sleeps so far

vars == <<cfgSellPercent, symbols, market, inFlight, isRunning, cycles, botState,
          indicatorService, calls, buyCheck, entryCheck, externalRead>>

-----------------------------------------------------------------------------
(* Bounds of the model *)

MaxInFlight == 2
MaxCycles == 2
MaxCyclesEach == 1
MaxTime == 6
MaxSent == 2
MaxUnrecorded == 1

Symbols == {"BTC", "ETH"}
Scopes == Symbols \cup {"GLOBAL"}

NULL == -1

-----------------------------------------------------------------------------
(* Decimal substrate *)

D == 1000
NumGrid == 10

Abs(x) == IF x < 0 THEN -x ELSE x

\* Decimal.ROUND_DOWN: quotients truncate toward zero
TruncDiv(a, b) == IF a >= 0 THEN a \div b ELSE -((-a) \div b)

DecMul(a, b) == TruncDiv(a * b, D)

DecDiv(a, b) == TruncDiv(a * D, b)

\* Decimal.toNumber(): nearest representable number
ToNumber(x) ==
    IF x >= 0 THEN ((x + (NumGrid \div 2)) \div NumGrid) * NumGrid
    ELSE -(((-x + (NumGrid \div 2)) \div NumGrid) * NumGrid)

\* percentChange(from, to)
percentChange(from, to) == IF from = 0 THEN 0 ELSE DecDiv(to - from, from)

-----------------------------------------------------------------------------
(* Configuration (src/config/index.ts), in Decimal units *)

GRID_DROP_PERCENT == 30
GRID_DROP_PERCENT_HIGH_VOL == 40
GRID_MAX_BUYS == 2
GRID_PROFIT_TARGET == 30
GRID_TRAILING_STOP_PERCENT == 15
SellPercents == {100, 1000}
CAPITAL_MAX_EXPOSURE == 300
CAPITAL_ENTRY_PERCENT == 100
ENTRY_RSI_THRESHOLD == 40
ENTRY_RSI_RECOVERY == 35
ENTRY_VOLUME_LOOKBACK == 20
RISK_MAX_DRAWDOWN == 150
RISK_CRASH_DROP_PERCENT == 80
RISK_LATERAL_CYCLE_COUNT == 1
RISK_LATERAL_PROFIT_THRESHOLD == 5
RISK_LATERAL_PAUSE_HOURS == 1
DRAWDOWN_WARNING_RATIO == 750
MIN_ORDER_VALUE_USDT == 10000
ATR_HIGH_VOL_THRESHOLD == 20

-----------------------------------------------------------------------------
(* Ledger: Cycle and Position rows (PositionManagerService) *)

\* variant: getActiveCycle looks for ACTIVE rows only
OnlyActiveStatus == {"ACTIVE"}

ActiveStatuses == {"ACTIVE", "PARTIAL_SELL", "TRAILING", "PAUSED"}

OpenStatuses == {"OPEN", "PARTIALLY_CLOSED"}

IsOpen(p) == p.status \in OpenStatuses

OpenPositions(c) == SelectSeq(c.positions, IsOpen)

RECURSIVE SumField(_, _)
SumField(ps, f) == IF ps = <<>> THEN 0 ELSE Head(ps)[f] + SumField(Tail(ps), f)

\* prisma.cycle.create in createCycle; the columns it does not set take the
\* schema defaults the rest of the code relies on (numeric 0, flags false,
\* trailing prices and profit null)
createCycle(gridPercent) ==
    [ status |-> "ACTIVE",
      gridPercent |-> gridPercent,
      maxBuys |-> GRID_MAX_BUYS,
      buyCount |-> 0,
      totalInvested |-> 0,
      totalQuantity |-> 0,
      remainingQuantity |-> 0,
      averagePrice |-> 0,
      nextBuyPrice |-> 0,
      targetSellPrice |-> 0,
      partialSellDone |-> FALSE,
      trailingHighPrice |-> NULL,
      trailingStopPrice |-> NULL,
      totalProfit |-> NULL,
      profitPercent |-> NULL,
      positions |-> <<>>,
      \* not columns: the net quantity the broker has executed for the cycle
      \* (bought minus sold), the executed orders the ledger has no record of
      \* and the partial sells the broker has executed, kept in audited runs only
      held |-> 0,
      unrecorded |-> 0,
      partialSells |-> 0 ]

\* updateCycleStatus
updateCycleStatus(c, status) == [c EXCEPT !.status = status]

\* variant: the quotient taken the wrong way round
AveragePriceSwapped(totalInvested, totalQuantity) ==
    IF totalQuantity = 0 THEN 0 ELSE DecDiv(totalQuantity, totalInvested)

\* averagePrice of recalculateCycleInTransaction
AveragePrice(totalInvested, totalQuantity) ==
    IF totalQuantity = 0 THEN 0 ELSE DecDiv(totalInvested, totalQuantity)

\* variant: the next grid step is taken from the average price
NextBuyPriceFromAverage(entryPrice, averagePrice, gridPercent) ==
    DecMul(averagePrice, D - gridPercent)

\* nextBuyPrice of recalculateCycleInTransaction
NextBuyPrice(entryPrice, averagePrice, gridPercent) ==
    DecMul(entryPrice, D - gridPercent)

\* recalculateCycleInTransaction(tx, cycleId, lastEntryPrice)
recalculateCycleInTransaction(c, lastEntryPrice) ==
    LET positions == OpenPositions(c)
        totalInvested == SumField(positions, "investedAmount")
        totalQuantity == SumField(positions, "quantity")
        remainingQuantity == SumField(positions, "remainingQuantity")
        averagePrice == AveragePrice(totalInvested, totalQuantity)
        entryPrice == IF lastEntryPrice = NULL THEN averagePrice ELSE lastEntryPrice
        nextBuyPrice == NextBuyPrice(entryPrice, averagePrice, c.gridPercent)
        targetSellPrice == DecMul(averagePrice, D + GRID_PROFIT_TARGET)
    IN  IF Len(positions) = 0 THEN c
        ELSE [c EXCEPT !.totalQuantity = ToNumber(totalQuantity),
                       !.remainingQuantity = ToNumber(remainingQuantity),
                       !.totalInvested = ToNumber(totalInvested),
                       !.averagePrice = ToNumber(averagePrice),
                       !.nextBuyPrice = ToNumber(nextBuyPrice),
                       !.targetSellPrice = ToNumber(targetSellPrice),
                       !.buyCount = Len(positions)]

\* variant: the writes are sent one by one, outside a transaction
Untransacted(before, partial, after, committed) ==
    IF committed THEN after ELSE partial

\* prisma.$transaction: the unit's writes take effect together when its callback
\* returns, and none of them does when a write in it throws; partial is the
\* ledger with the position writes done and the cycle update still to come
Transaction(before, partial, after, committed) ==
    IF committed THEN after ELSE before

\* tx.position.create in addPosition
NewPosition(input) ==
    [ quantity |-> ToNumber(input.quantity),
      remainingQuantity |-> ToNumber(input.quantity),
      entryPrice |-> ToNumber(input.entryPrice),
      investedAmount |-> ToNumber(input.investedAmount),
      buyNumber |-> input.buyNumber,
      status |-> "OPEN" ]

\* addPosition: one transaction, create the row then recalculate
addPosition(c, input) ==
    recalculateCycleInTransaction(
        [c EXCEPT !.positions = Append(@, NewPosition(input))], input.entryPrice)

\* variant: a position sold down to nothing is left PARTIALLY_CLOSED
PartialCloseNeverCloses(p, sellPercent) ==
    IF ~IsOpen(p) THEN p
    ELSE [p EXCEPT !.remainingQuantity =
                       ToNumber(p.remainingQuantity - DecMul(p.remainingQuantity, sellPercent)),
                   !.status = "PARTIALLY_CLOSED"]

\* the per-position update of partialClosePositions
PartialClosePosition(p, sellPercent) ==
    LET remaining == p.remainingQuantity
        soldQuantity == DecMul(remaining, sellPercent)
        newRemaining == remaining - soldQuantity
    IN  IF ~IsOpen(p) THEN p
        ELSE [p EXCEPT !.remainingQuantity = ToNumber(newRemaining),
                       !.status = IF newRemaining = 0 THEN "CLOSED"
                                  ELSE "PARTIALLY_CLOSED"]

RECURSIVE SumAfterSell(_, _)
SumAfterSell(ps, sellPercent) ==
    IF ps = <<>> THEN 0
    ELSE (Head(ps).remainingQuantity - DecMul(Head(ps).remainingQuantity, sellPercent))
         + SumAfterSell(Tail(ps), sellPercent)

\* partialClosePositions: one transaction
partialClosePositions(c, sellPercent, exitPrice) ==
    LET positions == OpenPositions(c)
        totalRemaining == SumAfterSell(positions, sellPercent)
    IN  [c EXCEPT !.positions = [i \in DOMAIN @ |-> PartialClosePosition(@[i], sellPercent)],
                  !.remainingQuantity = ToNumber(totalRemaining),
                  !.partialSellDone = TRUE,
                  !.status = "PARTIAL_SELL"]

RECURSIVE SumSaleValue(_, _)
SumSaleValue(ps, exitPrice) ==
    IF ps = <<>> THEN 0
    ELSE DecMul(Head(ps).remainingQuantity, exitPrice) + SumSaleValue(Tail(ps), exitPrice)

\* fullClosePositions: one transaction
fullClosePositions(c, exitPrice) ==
    LET positions == OpenPositions(c)
        totalInvested == SumField(positions, "investedAmount")
        totalSaleValue == SumSaleValue(positions, exitPrice)
        totalProfit == totalSaleValue - totalInvested
        totalProfitPct == IF totalInvested = 0 THEN 0
                          ELSE DecDiv(totalProfit, totalInvested) * 100
    IN  [c EXCEPT !.positions = [i \in DOMAIN @ |->
                        IF IsOpen(@[i])
                        THEN [@[i] EXCEPT !.status = "CLOSED", !.remainingQuantity = 0]
                        ELSE @[i]],
                  !.status = "COMPLETED",
                  !.remainingQuantity = 0,
                  !.totalProfit = ToNumber(totalProfit),
                  !.profitPercent = ToNumber(totalProfitPct)]

\* variant: the cycle is marked TRAILING with its high set and no stop price
ArmsWithoutStop(c, currentPrice, trailingPercent) ==
    [c EXCEPT !.status = "TRAILING",
              !.trailingHighPrice = ToNumber(currentPrice)]

\* activateTrailingStop
activateTrailingStop(c, currentPrice, trailingPercent) ==
    LET stopPrice == DecMul(currentPrice, D - trailingPercent)
    IN  [c EXCEPT !.status = "TRAILING",
                  !.trailingHighPrice = ToNumber(currentPrice),
                  !.trailingStopPrice = ToNumber(stopPrice)]

\* JavaScript !x of a nullable number column
Falsy(x) == x = NULL \/ x = 0

\* variant: the stop follows the price down as well as up
MovesHighOnAnyChange(currentPrice, highPrice) == currentPrice # highPrice

\* updateTrailingStop: does the price move the high watermark
MovesHigh(currentPrice, highPrice) == currentPrice > highPrice

\* updateTrailingStop: the row after the call, whether the stop triggered, the stop
updateTrailingStop(c, currentPrice) ==
    IF Falsy(c.trailingStopPrice) \/ Falsy(c.trailingHighPrice)
    THEN [cycle |-> c, triggered |-> FALSE, stopPrice |-> 0]
    ELSE LET moved == MovesHigh(currentPrice, c.trailingHighPrice)
             stopPrice == IF moved
                          THEN DecMul(currentPrice, D - GRID_TRAILING_STOP_PERCENT)
                          ELSE c.trailingStopPrice
             c2 == IF moved
                   THEN [c EXCEPT !.trailingHighPrice = ToNumber(currentPrice),
                                  !.trailingStopPrice = ToNumber(stopPrice)]
                   ELSE c
         IN  [cycle |-> c2, triggered |-> currentPrice <= stopPrice, stopPrice |-> stopPrice]

\* getActiveCycle: index of the first non-terminal cycle of the symbol, 0 if none
getActiveCycle(cs) ==
    IF \E i \in DOMAIN cs : cs[i].status \in ActiveStatuses
    THEN CHOOSE i \in DOMAIN cs :
            /\ cs[i].status \in ActiveStatuses
            /\ \A j \in DOMAIN cs : cs[j].status \in ActiveStatuses => i <= j
    ELSE 0

-----------------------------------------------------------------------------
(* Risk manager: BotState rows (RiskManagerService) *)

\* a pausedUntil date is kept as the hours left until it; PAST is a date
\* that new Date() already exceeds
PAST == -2

\* a scope before its row exists.  Kept with the row are the two things the
\* risk manager files under the same scope: crashEvents, the number of the
\* symbol's CrashEvent rows with resolved = false, and pauseNotices, the pause
\* notifications sent for the scope less the resume notifications sent for it
NoRow ==
    [ rows |-> 0, state |-> "RUNNING", peakBalance |-> 0, currentBalance |-> 0,
      maxDrawdownHit |-> 0, pausedUntil |-> NULL, consecutiveLowProfitCycles |-> 0,
      crashEvents |-> 0, pauseNotices |-> 0 ]

\* getBotState, its prisma.botState.create: one more row for the scope.  The
\* scope's first row is the one findFirst goes on returning
createBotState(bs, key) ==
    IF bs[key].rows = 0 THEN [bs EXCEPT ![key] = [NoRow EXCEPT !.rows = 1]]
    ELSE [bs EXCEPT ![key].rows = @ + 1]

\* getBotState: the scope's row, created RUNNING on first access
getBotState(bs, key) ==
    IF bs[key].rows = 0 THEN createBotState(bs, key) ELSE bs

\* pauseBot: the row update, then notifyBotPaused
pauseBot(bs, reason, key) ==
    [getBotState(bs, key) EXCEPT ![key].state = reason, ![key].pauseNotices = @ + 1]

\* resumeBot: the row update, then notifyBotResumed
resumeBot(bs, key) ==
    [getBotState(bs, key) EXCEPT ![key].state = "RUNNING", ![key].pausedUntil = NULL,
                                 ![key].pauseNotices = @ - 1]

\* variant: the lateral pause is lifted whatever pausedUntil says
LateralAlwaysExpired(pausedUntil) == TRUE

\* canTrade: new Date() > symbolState.pausedUntil
LateralExpired(pausedUntil) == pausedUntil = PAST

\* canTrade: the decision and the rows after it
canTrade(bs, symbol) ==
    LET bs1 == getBotState(bs, "GLOBAL")
        bs2 == getBotState(bs1, symbol)
    IN  IF bs1["GLOBAL"].state # "RUNNING"
        THEN [allowed |-> FALSE, bs |-> bs1]
        ELSE IF bs2[symbol].state # "RUNNING"
        THEN IF /\ bs2[symbol].state = "PAUSED_LATERAL"
                /\ bs2[symbol].pausedUntil # NULL
                /\ LateralExpired(bs2[symbol].pausedUntil)
             THEN [allowed |-> TRUE, bs |-> resumeBot(bs2, symbol)]
             ELSE [allowed |-> FALSE, bs |-> bs2]
        ELSE [allowed |-> TRUE, bs |-> bs2]

\* updateBalance
updateBalance(bs, totalBalance) ==
    LET bs1 == getBotState(bs, "GLOBAL")
        peak == bs1["GLOBAL"].peakBalance
    IN  [bs1 EXCEPT !["GLOBAL"].currentBalance = ToNumber(totalBalance),
                    !["GLOBAL"].peakBalance =
                        IF totalBalance > peak \/ peak = 0 THEN ToNumber(totalBalance) ELSE @]

\* checkDrawdown, its read of the GLOBAL row: whether a peak is known, the
\* drawdown, and whether the drawdown exceeds the maxDrawdownHit it read
readDrawdown(bs) ==
    LET row == getBotState(bs, "GLOBAL")["GLOBAL"]
        peak == row.peakBalance
        drawdown == IF peak = 0 THEN 0 ELSE DecDiv(peak - row.currentBalance, peak)
    IN  [ known |-> peak # 0, drawdown |-> drawdown,
          isHigh |-> peak # 0 /\ drawdown > row.maxDrawdownHit ]

\* variant: the pause needs a drawdown beyond the maximum
BeyondMaxDrawdown(drawdown) == drawdown > RISK_MAX_DRAWDOWN

\* checkDrawdown: drawdown.greaterThanOrEqualTo(maxAllowed)
AtMaxDrawdown(drawdown) == drawdown >= RISK_MAX_DRAWDOWN

\* checkDrawdown: drawdown.greaterThanOrEqualTo(maxAllowed.times(0.75))
AtWarning(drawdown) == drawdown * D >= RISK_MAX_DRAWDOWN * DRAWDOWN_WARNING_RATIO

\* checkDrawdown from its first write on, for what readDrawdown returned:
\* whether it paused, whether notifyDrawdownWarning was called, the rows after it
checkDrawdown(bs, read) ==
    LET bs1 == getBotState(bs, "GLOBAL")
        bs2 == IF read.isHigh
               THEN [bs1 EXCEPT !["GLOBAL"].maxDrawdownHit = ToNumber(read.drawdown)]
               ELSE bs1
    IN  IF ~read.known THEN [paused |-> FALSE, warned |-> FALSE, bs |-> bs1]
        ELSE IF AtMaxDrawdown(read.drawdown)
        THEN [paused |-> TRUE, warned |-> TRUE,
              bs |-> pauseBot(bs2, "PAUSED_DRAWDOWN", "GLOBAL")]
        ELSE [paused |-> FALSE, warned |-> AtWarning(read.drawdown), bs |-> bs2]

\* checkCrashCondition; recentPrices are the candles fetchRecentPrices returned
checkCrashCondition(bs, symbol, currentPrice, recentPrices) ==
    LET dropPercent == percentChange(recentPrices[1], currentPrice)
        crashThreshold == -RISK_CRASH_DROP_PERCENT
    IN  IF Len(recentPrices) < 2 THEN [crash |-> FALSE, bs |-> bs]
        ELSE IF dropPercent <= crashThreshold
        THEN [crash |-> TRUE,
              bs |-> [getBotState(bs, symbol) EXCEPT ![symbol].crashEvents = @ + 1,
                                                     ![symbol].state = "PAUSED_CRASH",
                                                     ![symbol].pauseNotices = @ + 1]]
        ELSE [crash |-> FALSE, bs |-> bs]

\* variant: any RSI reading counts as a recovery
RecoveredAtAnyRsi(rsi) == TRUE

\* resolveCrashIfRecovered: rsi > config.ENTRY_RSI_RECOVERY
Recovered(rsi) == rsi > ENTRY_RSI_RECOVERY

\* variant: the recovery leaves the crash events as they are
LeftUnresolved(unresolved) == unresolved

\* crashEvent.updateMany({ where: { symbol, resolved: false } }): the symbol's
\* unresolved events after the call
MarkResolved(unresolved) == 0

\* resolveCrashIfRecovered: crashEvent.updateMany, then resumeBot
resolveCrashIfRecovered(bs, symbol, rsi) ==
    IF rsi = NULL THEN bs
    ELSE IF Recovered(rsi)
    THEN resumeBot([bs EXCEPT ![symbol].crashEvents = MarkResolved(@)], symbol)
    ELSE bs

\* recordCycleResult; profitPercent arrives as a percentage (3.0 for 3%).  The
\* count is written by one botState.update; when it has reached the configured
\* count a second update pauses the symbol and resets it, then
\* notifyLateralDetected is called.  pauseWritten: that second update succeeded
recordCycleResult(bs, symbol, profitPercent, pauseWritten) ==
    LET bs1 == getBotState(bs, symbol)
        thresholdPercent == RISK_LATERAL_PROFIT_THRESHOLD * 100
        isLowProfit == Abs(profitPercent) < thresholdPercent
        newCount == IF isLowProfit THEN bs1[symbol].consecutiveLowProfitCycles + 1 ELSE 0
        counted == [bs1 EXCEPT ![symbol].consecutiveLowProfitCycles = newCount]
    IN  IF newCount >= RISK_LATERAL_CYCLE_COUNT /\ pauseWritten
        THEN [counted EXCEPT ![symbol].state = "PAUSED_LATERAL",
                             ![symbol].pausedUntil = RISK_LATERAL_PAUSE_HOURS,
                             ![symbol].consecutiveLowProfitCycles = 0,
                             ![symbol].pauseNotices = @ + 1]
        ELSE counted

-----------------------------------------------------------------------------
(* Indicators and capital (IndicatorService, CapitalManagerService) *)

\* a ?? b
Coalesce(a, b) == IF a # NULL THEN a ELSE b

NoSnapshot ==
    [ rsi15m |-> NULL, rsi1h |-> NULL, ema200_4h |-> NULL, atr14_4h |-> NULL,
      volumeRatio |-> NULL ]

\* variant: an unknown EMA200 counts as passed
AboveUnknownEma200(currentPrice, ema200) ==
    IF ema200 = NULL THEN TRUE ELSE currentPrice > ema200

\* isAboveEma200
isAboveEma200(currentPrice, ema200) ==
    IF ema200 = NULL THEN FALSE ELSE currentPrice > ema200

\* adaptGridPercent
adaptGridPercent(atr, currentPrice) ==
    IF atr = NULL THEN GRID_DROP_PERCENT
    ELSE IF DecDiv(atr, currentPrice) > ATR_HIGH_VOL_THRESHOLD
    THEN GRID_DROP_PERCENT_HIGH_VOL
    ELSE GRID_DROP_PERCENT

\* calculateEntrySize
calculateEntrySize(totalBalance) == DecMul(totalBalance, CAPITAL_ENTRY_PERCENT)

\* calculateMaxExposure
calculateMaxExposure(totalBalance) == DecMul(totalBalance, CAPITAL_MAX_EXPOSURE)

\* variant: the free balance is checked before the broker's minimum
canExecuteBuyBalanceFirst(totalBalance, currentCycleInvested, minOrderSize, available) ==
    LET entrySize == calculateEntrySize(totalBalance)
    IN  IF currentCycleInvested + entrySize > calculateMaxExposure(totalBalance)
        THEN [canBuy |-> FALSE, reason |-> "exposure"]
        ELSE IF available < entrySize THEN [canBuy |-> FALSE, reason |-> "balance"]
        ELSE IF entrySize < minOrderSize THEN [canBuy |-> FALSE, reason |-> "minimum"]
        ELSE [canBuy |-> TRUE, reason |-> "ok"]

\* canExecuteBuy; minOrderSize and available are what the broker answers
canExecuteBuy(totalBalance, currentCycleInvested, minOrderSize, available) ==
    LET entrySize == calculateEntrySize(totalBalance)
        maxExposure == calculateMaxExposure(totalBalance)
        projectedExposure == currentCycleInvested + entrySize
    IN  IF projectedExposure > maxExposure THEN [canBuy |-> FALSE, reason |-> "exposure"]
        ELSE IF entrySize < minOrderSize THEN [canBuy |-> FALSE, reason |-> "minimum"]
        ELSE IF available < entrySize THEN [canBuy |-> FALSE, reason |-> "balance"]
        ELSE [canBuy |-> TRUE, reason |-> "ok"]

\* the calls canExecuteBuy makes to the broker before it returns
BrokerCalls(totalBalance, currentCycleInvested, minOrderSize) ==
    LET entrySize == calculateEntrySize(totalBalance)
    IN  IF currentCycleInvested + entrySize > calculateMaxExposure(totalBalance) THEN <<>>
        ELSE IF entrySize < minOrderSize THEN <<"getMinOrderSize">>
        ELSE <<"getMinOrderSize", "getBalance">>

\* the amount canExecuteBuy returns: entrySize with canBuy, else none
BuyAmount(totalBalance, check) ==
    IF check.canBuy THEN calculateEntrySize(totalBalance) ELSE NULL

-----------------------------------------------------------------------------
(* What the broker and the indicator source may answer *)

GoodSnapshot == [NoSnapshot EXCEPT !.rsi15m = 30, !.ema200_4h = 90000, !.atr14_4h = 1000]

RecoveredSnapshot ==
    [NoSnapshot EXCEPT !.rsi15m = 50, !.rsi1h = 50, !.ema200_4h = 120000, !.atr14_4h = 1000]

\* an entry signal with an ATR of 2.2: above 2% of a price of 100 or less, below
\* 2% of a price of 111 or more
VolatileSnapshot == [GoodSnapshot EXCEPT !.atr14_4h = 2200]

\* RSI known on the hourly timeframe only, and recovered there
HourlySnapshot == [NoSnapshot EXCEPT !.rsi1h = 50]

\* fetchRecentPrices: no candles, or candles whose oldest close is p
RecentPrices(prices) == {<<>>} \cup {<<p, p>> : p \in prices}

\* one symbol, a full price ladder, a steady balance: the life of a cycle
CycleMarket ==
    [ prices |-> [s \in Symbols |-> {100000, 111000, 113000}],
      balances |-> {1000000},
      free |-> {0, 1000000},
      minOrder |-> {MIN_ORDER_VALUE_USDT},
      snapshots |-> [s \in Symbols |-> {GoodSnapshot, RecoveredSnapshot}],
      recent |-> [s \in Symbols |-> RecentPrices({113000})],
      maxCycles |-> MaxCycles,
      fills |-> {D},
      audit |-> FALSE ]

\* one symbol, a balance that can fall to the maximum drawdown (15%), crash
\* candles, low-profit cycles
RiskMarket ==
    [ prices |-> [s \in Symbols |-> {100000, 111000, 113000}],
      balances |-> {1000000, 850000},
      free |-> {1000000},
      minOrder |-> {MIN_ORDER_VALUE_USDT},
      snapshots |-> [s \in Symbols |-> {GoodSnapshot, RecoveredSnapshot,
                                        HourlySnapshot, NoSnapshot}],
      recent |-> [s \in Symbols |-> RecentPrices({113000})],
      maxCycles |-> MaxCyclesEach,
      fills |-> {D},
      audit |-> FALSE ]

\* one symbol, a balance that can fall into the warning band (12%) and to the
\* maximum drawdown (15%), no crash candles
WarningMarket ==
    [ prices |-> [s \in Symbols |-> {100000, 111000, 113000}],
      balances |-> {1000000, 880000, 850000},
      free |-> {1000000},
      minOrder |-> {MIN_ORDER_VALUE_USDT},
      snapshots |-> [s \in Symbols |-> {GoodSnapshot, RecoveredSnapshot}],
      recent |-> [s \in Symbols |-> {<<>>}],
      maxCycles |-> MaxCyclesEach,
      fills |-> {D},
      audit |-> FALSE ]

\* two symbols sharing one balance that can fall; BTC moves, ETH is flat
PairMarket ==
    [ prices |-> [s \in Symbols |-> IF s = "BTC" THEN {100000, 111000, 113000}
                                    ELSE {100000}],
      balances |-> {1000000, 800000},
      free |-> {1000000},
      minOrder |-> {MIN_ORDER_VALUE_USDT},
      snapshots |-> [s \in Symbols |-> {GoodSnapshot, RecoveredSnapshot}],
      recent |-> [s \in Symbols |-> IF s = "BTC" THEN RecentPrices({113000}) ELSE {<<>>}],
      maxCycles |-> MaxCyclesEach,
      fills |-> {D},
      audit |-> FALSE ]

\* two symbols sharing one balance that can fall by 10% and by 20%; BTC trades,
\* ETH finds no entry
DrawdownMarket ==
    [ prices |-> [s \in Symbols |-> IF s = "BTC" THEN {100000, 111000, 113000}
                                    ELSE {100000}],
      balances |-> {1000000, 900000, 800000},
      free |-> {1000000},
      minOrder |-> {MIN_ORDER_VALUE_USDT},
      snapshots |-> [s \in Symbols |-> IF s = "BTC" THEN {GoodSnapshot}
                                       ELSE {RecoveredSnapshot}],
      recent |-> [s \in Symbols |-> {<<>>}],
      maxCycles |-> MaxCyclesEach,
      fills |-> {D},
      audit |-> FALSE ]

\* two symbols on a steady balance, each of which can fall a grid step below
\* its entry
ExposureMarket ==
    [ prices |-> [s \in Symbols |-> IF s = "BTC" THEN {100000, 111000, 113000}
                                    ELSE {100000, 97000}],
      balances |-> {1000000},
      free |-> {1000000},
      minOrder |-> {MIN_ORDER_VALUE_USDT},
      snapshots |-> [s \in Symbols |-> {GoodSnapshot}],
      recent |-> [s \in Symbols |-> {<<>>}],
      maxCycles |-> MaxCyclesEach,
      fills |-> {D},
      audit |-> FALSE ]

\* one symbol that can fall two grid steps below its entry, with an EMA200
\* below or above the price, a grid that depends on the entry price and a
\* free balance that may be spent
DcaMarket ==
    [ prices |-> [s \in Symbols |-> {96000, 100000, 111000, 113000}],
      balances |-> {1000000},
      free |-> {0, 1000000},
      minOrder |-> {MIN_ORDER_VALUE_USDT},
      snapshots |-> [s \in Symbols |-> {RecoveredSnapshot, VolatileSnapshot}],
      recent |-> [s \in Symbols |-> {<<>>}],
      maxCycles |-> MaxCyclesEach,
      fills |-> {D},
      audit |-> FALSE ]

\* the life of a cycle with the broker's executions audited: an order may fill
\* by half
AuditMarket ==
    [CycleMarket EXCEPT !.maxCycles = MaxCyclesEach, !.fills = {D, D \div 2}, !.audit = TRUE]

\* one symbol with a free balance that always covers a buy and no crash candles
LiveMarket ==
    [CycleMarket EXCEPT !.maxCycles = MaxCyclesEach, !.free = {1000000},
                        !.recent = [s \in Symbols |-> {<<>>}]]

\* variant: the order call is retried once
OrderRetriedOnce == 1 + 1

\* withRetry(fn, 1, 0, ...) around the broker's order endpoint
ORDER_MAX_RETRIES == 1

-----------------------------------------------------------------------------
(* Strategy engine: evaluators (GridStrategy) *)

evaluateSearching(currentPrice, indicators, totalBalance) ==
    LET rsi15mOk == indicators.rsi15m # NULL /\ indicators.rsi15m < ENTRY_RSI_THRESHOLD
        rsi1hOk == indicators.rsi1h # NULL /\ indicators.rsi1h < ENTRY_RSI_THRESHOLD
    IN  IF ~isAboveEma200(currentPrice, indicators.ema200_4h) THEN "WAIT"
        ELSE IF ~rsi15mOk /\ ~rsi1hOk THEN "WAIT"
        ELSE IF /\ ENTRY_VOLUME_LOOKBACK > 0
                /\ indicators.volumeRatio # NULL
                /\ indicators.volumeRatio <= D THEN "WAIT"
        ELSE IF calculateEntrySize(totalBalance) < MIN_ORDER_VALUE_USDT THEN "WAIT"
        ELSE "OPEN_CYCLE"

\* variant: no limit on the number of buys
evaluateActiveNoMaxBuys(c, currentPrice, totalBalance, indicators, minOrderSize, available) ==
    IF currentPrice >= c.targetSellPrice THEN "PARTIAL_SELL"
    ELSE IF currentPrice <= c.nextBuyPrice
    THEN IF ~isAboveEma200(currentPrice, indicators.ema200_4h) THEN "WAIT"
         ELSE IF ~canExecuteBuy(totalBalance, c.totalInvested, minOrderSize, available).canBuy
         THEN "WAIT"
         ELSE "DCA_BUY"
    ELSE "WAIT"

\* indicators is the snapshot evaluateActive fetches itself; minOrderSize and
\* available are the broker's answers to canExecuteBuy
evaluateActive(c, currentPrice, totalBalance, indicators, minOrderSize, available) ==
    IF currentPrice >= c.targetSellPrice THEN "PARTIAL_SELL"
    ELSE IF currentPrice <= c.nextBuyPrice
    THEN IF c.buyCount >= c.maxBuys THEN "WAIT"
         ELSE IF ~isAboveEma200(currentPrice, indicators.ema200_4h) THEN "WAIT"
         ELSE IF ~canExecuteBuy(totalBalance, c.totalInvested, minOrderSize, available).canBuy
         THEN "WAIT"
         ELSE "DCA_BUY"
    ELSE "WAIT"

\* variant: the remainder is sold on the tick after the partial sell
SellAfterPartial(c, currentPrice) == "TRAILING_SELL"

evaluatePartialSell(c, currentPrice) == "UPDATE_TRAILING"

evaluateTrailing(c, currentPrice) ==
    IF updateTrailingStop(c, currentPrice).triggered THEN "TRAILING_SELL" ELSE "WAIT"

-----------------------------------------------------------------------------
(* Timer loop and tick bodies (TradingBot.executeTick, GridStrategy.tick)   *)
(*                                                                         *)
(* A tick body is cut at the awaits that touch state shared between        *)
(* symbols or between overlapping ticks: the gate (reads GLOBAL),          *)
(* updateBalance (writes GLOBAL), checkDrawdown (reads and writes GLOBAL), *)
(* getActiveCycle (reads the ledger), the executor (writes it) and the     *)
(* order call.  The other awaits ask the broker and the indicator source,  *)
(* whose answers are drawn in the step that first uses them.               *)

Invocations == 1..MaxInFlight

IdleInv ==
    [ idx |-> 0, pc |-> "idle", price |-> 0, totalBalance |-> 0,
      cycle |-> 0, action |-> "NONE", orders |-> 0, orderRisk |-> "NONE",
      rsi |-> NULL, drawdown |-> NULL, free |-> 0, ema200 |-> NULL ]

Sym(i) == symbols[inFlight[i].idx]

\* the invocation after strategy.tick() of its current symbol has returned:
\* the for loop moves to the next symbol, or executeTick returns
Advance(r) ==
    IF r.idx < Len(symbols) THEN [IdleInv EXCEPT !.idx = r.idx + 1, !.pc = "call"]
    ELSE IdleInv

\* variant: the flag is not cleared when the tick is over
StillHeld(running, s) == running

\* finally { this.isRunning = false }
Released(running, s) == [running EXCEPT ![s] = FALSE]

\* the finally block of tick, then the return to executeTick
Finish(i, cs, bs) ==
    /\ isRunning' = Released(isRunning, Sym(i))
    /\ inFlight' = [inFlight EXCEPT ![i] = Advance(@)]
    /\ cycles' = cs
    /\ botState' = bs
    /\ UNCHANGED <<buyCheck, entryCheck, externalRead, indicatorService, calls, cfgSellPercent, symbols, market>>

\* the tick moves to its next await
Goto(i, r, cs, bs) ==
    /\ inFlight' = [inFlight EXCEPT ![i] = r]
    /\ cycles' = cs
    /\ botState' = bs
    /\ UNCHANGED <<buyCheck, entryCheck, externalRead, indicatorService, calls, cfgSellPercent, symbols, market, isRunning>>

\* setInterval callback: a further executeTick starts, whatever the earlier ones do
TimerFire ==
    /\ \E i \in Invocations :
        /\ inFlight[i].idx = 0
        /\ \A j \in Invocations : j < i => inFlight[j].idx # 0
        /\ inFlight' = [inFlight EXCEPT ![i] = [IdleInv EXCEPT !.idx = 1, !.pc = "call"]]
    /\ UNCHANGED <<buyCheck, entryCheck, externalRead, indicatorService, calls, cfgSellPercent, symbols, market, isRunning, cycles, botState>>

\* variant: tick() without its re-entrancy guard
TickGuardOff(running) == FALSE

\* tick(): if (this.isRunning) return
TickGuard(running) == running

\* the model opens no cycle for a symbol that has used up its cycle rows
HasRoom(s) == Len(cycles[s]) < market.maxCycles

TickSkipped(i) ==
    /\ inFlight[i].pc = "call"
    /\ TickGuard(isRunning[Sym(i)])
    /\ inFlight' = [inFlight EXCEPT ![i] = Advance(@)]
    /\ UNCHANGED <<buyCheck, entryCheck, externalRead, indicatorService, calls, cfgSellPercent, symbols, market, isRunning, cycles, botState>>

TickStart(i) ==
    /\ inFlight[i].pc = "call"
    /\ ~TickGuard(isRunning[Sym(i)])
    /\ isRunning' = [isRunning EXCEPT ![Sym(i)] = TRUE]
    /\ inFlight' = [inFlight EXCEPT ![i].pc = "gate"]
    /\ UNCHANGED <<buyCheck, entryCheck, externalRead, indicatorService, calls, cfgSellPercent, symbols, market, cycles, botState>>

\* step 1: the risk gate; a crash-paused symbol reads a snapshot ("recover" is
\* the tick holding its RSI), checks RSI recovery, then returns.  The GLOBAL
\* row is shared by the ticks of all symbols: a tick whose findFirst found no
\* GLOBAL row waits at "create" for its botState.create
Gate(i) ==
    /\ inFlight[i].pc \in {"gate", "create", "recover"}
    /\ LET found == IF inFlight[i].pc = "create" THEN createBotState(botState, "GLOBAL")
                    ELSE botState
           check == canTrade(found, Sym(i))
           bs1 == getBotState(check.bs, Sym(i))
       IN  IF inFlight[i].pc = "recover"
           THEN Finish(i, cycles,
                       resolveCrashIfRecovered(botState, Sym(i), inFlight[i].rsi))
           ELSE IF inFlight[i].pc = "gate" /\ botState["GLOBAL"].rows = 0
           THEN Goto(i, [inFlight[i] EXCEPT !.pc = "create"], cycles, botState)
           ELSE IF check.allowed
           THEN Goto(i, [inFlight[i] EXCEPT !.pc = "fetch"], cycles, check.bs)
           ELSE IF bs1[Sym(i)].state = "PAUSED_CRASH"
           THEN \E snapshot \in market.snapshots[Sym(i)] :
                    Goto(i, [inFlight[i] EXCEPT !.pc = "recover",
                                 !.rsi = Coalesce(snapshot.rsi15m, snapshot.rsi1h)],
                         cycles, bs1)
           ELSE Finish(i, cycles, bs1)

\* steps 2-4: the reads (price and snapshot are drawn where they are used),
\* then riskManager.updateBalance
Fetch(i) ==
    /\ inFlight[i].pc = "fetch"
    /\ \E totalBalance \in market.balances :
          Goto(i, [inFlight[i] EXCEPT !.pc = "risk", !.totalBalance = totalBalance],
               cycles, updateBalance(botState, totalBalance))

\* a read that still fails after its retries throws: catch, finally
FetchFails(i) ==
    /\ inFlight[i].pc = "fetch"
    /\ Finish(i, cycles, botState)

\* amount handed to the broker: quote amount of a buy, base quantity of a sell
OrderAmount(action, c, totalBalance) ==
    IF action \in {"OPEN_CYCLE", "DCA_BUY"} THEN ToNumber(calculateEntrySize(totalBalance))
    ELSE IF action = "PARTIAL_SELL" THEN ToNumber(DecMul(c.remainingQuantity, cfgSellPercent))
    ELSE ToNumber(c.remainingQuantity)

\* the risk rows as the gate reads them, seen at the moment an order is sent
RiskNow(s) ==
    IF botState["GLOBAL"].state = "RUNNING" /\ botState[s].state = "RUNNING"
    THEN "RUNNING" ELSE "PAUSED"

\* step 7: the evaluator of the cycle's status
Evaluate(c, status, currentPrice, totalBalance, indicators, indicators2, minOrderSize, available) ==
    IF status = "NONE" THEN evaluateSearching(currentPrice, indicators, totalBalance)
    ELSE IF status = "ACTIVE"
    THEN evaluateActive(c, currentPrice, totalBalance, indicators2, minOrderSize, available)
    ELSE IF status = "PARTIAL_SELL" THEN evaluatePartialSell(c, currentPrice)
    ELSE IF status = "TRAILING" THEN evaluateTrailing(c, currentPrice)
    ELSE "WAIT"

\* the answers a tick with a cycle in this status asks for: the step-3 snapshot is
\* read by evaluateSearching and executeOpenCycle only, the second snapshot by
\* evaluateActive only.  available is the account's free quote balance as the
\* tick decides; evaluateActive asks for it, evaluateSearching does not
AnswersFor(s, status) ==
    [ indicators : IF status = "NONE" THEN market.snapshots[s] ELSE {NoSnapshot},
      indicators2 : IF status = "ACTIVE" THEN market.snapshots[s] ELSE {NoSnapshot},
      minOrderSize : market.minOrder,
      available : IF status \in {"NONE", "ACTIVE"} THEN market.free ELSE {0} ]

\* what checkDrawdown read, as the tick holds it: a tick at "mark" has found a
\* new high and is about to write it
DrawdownRead(r) ==
    IF r.pc = "mark" THEN [known |-> TRUE, drawdown |-> r.drawdown, isHigh |-> TRUE]
    ELSE readDrawdown(botState)

\* steps 4-6 from checkDrawdown on: drawdown, crash check, getActiveCycle.
\* checkDrawdown reads the GLOBAL row and writes maxDrawdownHit in two calls of
\* the ledger; a tick with a new high to write waits at "mark" in between
Risk(i) ==
    /\ inFlight[i].pc \in {"risk", "mark"}
    /\ LET s == Sym(i)
           read == DrawdownRead(inFlight[i])
           dd == checkDrawdown(botState, read)
       IN  IF inFlight[i].pc = "risk" /\ read.isHigh
           THEN Goto(i, [inFlight[i] EXCEPT !.pc = "mark", !.drawdown = read.drawdown],
                     cycles, getBotState(botState, "GLOBAL"))
           ELSE \E currentPrice \in market.prices[s], recentPrices \in market.recent[s] :
                   LET cr == checkCrashCondition(dd.bs, s, currentPrice, recentPrices)
                   IN  IF dd.paused THEN Finish(i, cycles, dd.bs)
                       ELSE IF cr.crash THEN Finish(i, cycles, cr.bs)
                       ELSE Goto(i, [inFlight[i] EXCEPT !.pc = "eval",
                                         !.price = currentPrice, !.drawdown = NULL,
                                         !.cycle = getActiveCycle(cycles[s])],
                                 cycles, cr.bs)

\* steps 7-9: the evaluator, then executeAction up to the broker's order call
Eval(i) ==
    /\ inFlight[i].pc = "eval"
    /\ LET s == Sym(i)
           r == inFlight[i]
           k == r.cycle
           c == cycles[s][k]
           status == IF k = 0 THEN "NONE" ELSE c.status
           currentPrice == r.price
       IN  \E a \in AnswersFor(s, status) :
            LET action == Evaluate(c, status, currentPrice, r.totalBalance, a.indicators,
                                   a.indicators2, a.minOrderSize, a.available)
                \* evaluateTrailing has written the moved stop before it returns
                cs1 == IF status = "TRAILING"
                       THEN [cycles EXCEPT ![s][k] = updateTrailingStop(c, currentPrice).cycle]
                       ELSE cycles
                opened == Append(cycles[s],
                              createCycle(adaptGridPercent(a.indicators.atr14_4h, currentPrice)))
                atOrder == [r EXCEPT !.pc = "order", !.action = action, !.orders = 1,
                                     !.orderRisk = RiskNow(s),
                                     !.free = IF action \in {"OPEN_CYCLE", "DCA_BUY"}
                                              THEN a.available ELSE 0,
                                     \* the EMA200 evaluateActive read for a DCA buy
                                     !.ema200 = IF action = "DCA_BUY"
                                                THEN a.indicators2.ema200_4h ELSE NULL]
            IN  IF action = "WAIT" THEN Finish(i, cs1, botState)
                ELSE IF action = "UPDATE_TRAILING"
                THEN Finish(i, [cycles EXCEPT ![s][k] =
                                  activateTrailingStop(c, currentPrice,
                                                       GRID_TRAILING_STOP_PERCENT)],
                            botState)
                ELSE IF action = "OPEN_CYCLE"
                THEN /\ HasRoom(s)
                     /\ Goto(i, [atOrder EXCEPT !.cycle = Len(opened)],
                             [cycles EXCEPT ![s] = opened], botState)
                ELSE Goto(i, atOrder, cs1, botState)

\* the order of a market buy of amountInQuote at price, filled by the fraction fill
BuyResult(amountInQuote, price, fill) ==
    [ price |-> price,
      filled |-> ToNumber(DecDiv(DecMul(amountInQuote, fill), price)),
      cost |-> DecMul(amountInQuote, fill) ]

\* variant: the catch of executeOpenCycle only logs, as the other executors' do
CaughtAndLogged(c, action, outcome) == c

\* the executors' catch blocks: only executeOpenCycle's touches the cycle, which
\* it marks COMPLETED
Caught(c, action, outcome) ==
    IF outcome # "ok" /\ action = "OPEN_CYCLE"
    THEN updateCycleStatus(c, "COMPLETED") ELSE c

\* the audit of an executed order: what the broker bought or sold of it
Audited(c, action, filled, recorded) ==
    IF ~market.audit THEN c
    ELSE [c EXCEPT !.held = IF action \in {"OPEN_CYCLE", "DCA_BUY"} THEN @ + filled
                              ELSE @ - filled,
                   !.unrecorded = IF recorded THEN @ ELSE @ + 1,
                   !.partialSells = IF action = "PARTIAL_SELL" THEN @ + 1 ELSE @]

\* getCycleSummary(cycleId).currentPnLPercent ?? 0 of the cycle just closed
SummaryPnLPercent(c) ==
    IF c.status = "COMPLETED" /\ c.totalProfit # NULL
    THEN IF Falsy(c.profitPercent) THEN 0 ELSE c.profitPercent
    ELSE 0

\* what the executor does once the order call has returned or thrown:
\*   ok        the order filled and every write after it succeeded
\*   orderFail the broker call threw (withRetry made ORDER_MAX_RETRIES attempts)
\*   writeFail the order filled, the cycle update of the ledger transaction threw
\*   logFail   the order filled, the ledger was written, logTrade threw
\*   pauseFail the closing sale went through; the update of recordCycleResult
\*             that pauses the symbol, if it came to it, threw
AfterOrder(r, s, outcome, fill) ==
    LET c == cycles[s][r.cycle]
        amount == OrderAmount(r.action, c, r.totalBalance)
        buy == BuyResult(amount, r.price, fill)
        filled == IF r.action \in {"OPEN_CYCLE", "DCA_BUY"} THEN buy.filled
                  ELSE ToNumber(DecMul(amount, fill))
        input == [ quantity |-> buy.filled, entryPrice |-> buy.price,
                   investedAmount |-> buy.cost,
                   buyNumber |-> IF r.action = "OPEN_CYCLE" THEN 1 ELSE c.buyCount + 1 ]
        written == IF r.action \in {"OPEN_CYCLE", "DCA_BUY"} THEN addPosition(c, input)
                   ELSE IF r.action = "PARTIAL_SELL"
                   THEN partialClosePositions(c, cfgSellPercent, r.price)
                   ELSE fullClosePositions(c, r.price)
        partial == [c EXCEPT !.positions = written.positions]
        c1 == IF outcome = "orderFail" THEN c
              ELSE Transaction(c, partial, written, outcome # "writeFail")
        c1a == Caught(c1, r.action, outcome)
        c2 == IF outcome = "orderFail" THEN c1a
              ELSE Audited(c1a, r.action, filled, outcome # "writeFail")
        bs == IF outcome \in {"ok", "pauseFail"} /\ r.action = "TRAILING_SELL"
              THEN recordCycleResult(botState, s, SummaryPnLPercent(c2), outcome = "ok")
              ELSE botState
    IN  [ cycles |-> [cycles EXCEPT ![s][r.cycle] = c2], bs |-> bs ]

\* the order call returns or throws; a further attempt is made while withRetry allows
OrderReturn(i) ==
    /\ inFlight[i].pc = "order"
    /\ LET r == inFlight[i]
           s == Sym(i)
           amount == OrderAmount(r.action, cycles[s][r.cycle], r.totalBalance)
           all == IF amount <= 0 THEN {"orderFail"}
                  ELSE IF r.action = "TRAILING_SELL"
                  THEN {"ok", "orderFail", "writeFail", "logFail", "pauseFail"}
                  ELSE {"ok", "orderFail", "writeFail", "logFail"}
           \* an audited run follows at most MaxUnrecorded lost ledger writes a cycle
           outcomes == IF cycles[s][r.cycle].unrecorded >= MaxUnrecorded
                       THEN all \ {"writeFail"} ELSE all
           \* the outcomes of the call, the throw first
           tried == <<"orderFail", "ok", "writeFail", "logFail", "pauseFail">>
       IN  \E n \in DOMAIN tried, fill \in market.fills :
            LET outcome == tried[n] IN
              outcome \in outcomes /\
              IF outcome = "orderFail" /\ r.orders < ORDER_MAX_RETRIES
              THEN Goto(i, [r EXCEPT !.orders = @ + 1, !.orderRisk = RiskNow(s)],
                        cycles, botState)
              ELSE LET after == AfterOrder(r, s, outcome, fill)
                   IN  Finish(i, after.cycles, after.bs)

\* an hour passes: every pausedUntil comes an hour closer, then lies in the past
HourPasses ==
    /\ \E k \in Scopes : botState[k].pausedUntil >= 0
    /\ botState' = [k \in Scopes |->
            IF botState[k].pausedUntil >= 1
            THEN [botState[k] EXCEPT !.pausedUntil = @ - 1]
            ELSE IF botState[k].pausedUntil = 0
            THEN [botState[k] EXCEPT !.pausedUntil = PAST]
            ELSE botState[k]]
    /\ UNCHANGED <<buyCheck, entryCheck, externalRead, indicatorService, calls, cfgSellPercent, symbols, market, inFlight, isRunning, cycles>>

-----------------------------------------------------------------------------
(* Indicator cache and fetcher (IndicatorService)                           *)
(*                                                                         *)
(* Date.now() is counted in steps of five seconds.  A cached value is      *)
(* known by the instant it was fetched at, so an entry of the cache and a  *)
(* field of a snapshot hold that instant, or NULL.                         *)

TAAPI_RATE_LIMIT == 1
\* config.TAAPI_CACHE_TTL_SECONDS = 10
TAAPI_CACHE_TTL == 2
\* windowMs = 15000
RATE_WINDOW == 3
\* the 100 ms added to the wait: the sleeper wakes at the first instant of the
\* clock after the oldest request has left the window
RATE_BUFFER == 1

FetchedKeys == {"ema:4h", "atr:4h", "rsi:15m", "rsi:1h"}
CacheKeys == FetchedKeys \cup {"volratio:1h"}

\* the snapshot getIndicatorSnapshot starts from
EmptySnapshot == [k \in CacheKeys |-> NULL]

\* new IndicatorService()
NewIndicatorService ==
    [ cache |-> [s \in Symbols |-> EmptySnapshot], requestTimestamps |-> <<>> ]

\* no call in progress.  A call at pc "return" holds the snapshot it hands to
\* the tick that made it
NoCall == [ pc |-> "idle", wake |-> 0, requested |-> {}, snapshot |-> EmptySnapshot ]

\* sent: the instants, not yet out of the window that ends now, at which a
\* request went out to the indicator source
NoCalls == [ now |-> 0, sent |-> <<>>, of |-> [s \in Symbols |-> NoCall] ]

\* variant: an entry stays valid whatever its age
NeverExpired(now, fetchedAt) == FALSE

\* getCached: Date.now() - entry.fetchedAt > this.cacheTtlMs
Expired(now, fetchedAt) == now - fetchedAt > TAAPI_CACHE_TTL

\* getCached on every key of a symbol: what each read returns, which is also
\* what the cache holds afterwards (an expired entry is deleted by its read)
getCached(entries, now) ==
    [k \in CacheKeys |->
        IF entries[k] # NULL /\ Expired(now, entries[k]) THEN NULL ELSE entries[k]]

\* tryFillFromCache: the snapshot after it, and whether the four fetched
\* indicators were all there
tryFillFromCache(entries, snapshot, now) ==
    LET read == getCached(entries, now)
    IN  [ snapshot |-> [k \in CacheKeys |-> IF read[k] # NULL THEN read[k] ELSE snapshot[k]],
          allCached |-> \A k \in FetchedKeys : read[k] # NULL ]

\* variant: the hourly RSI is never asked for
RequestedWithoutHourly(entries, now) ==
    LET read == getCached(entries, now)
    IN  (IF read["ema:4h"] = NULL \/ read["atr:4h"] = NULL THEN {"ema:4h", "atr:4h"} ELSE {})
        \cup (IF read["rsi:15m"] = NULL THEN {"rsi:15m"} ELSE {})

\* the indicators getIndicatorSnapshot puts into its bulk request
Requested(entries, now) ==
    LET read == getCached(entries, now)
    IN  (IF read["ema:4h"] = NULL \/ read["atr:4h"] = NULL THEN {"ema:4h", "atr:4h"} ELSE {})
        \cup (IF read["rsi:15m"] = NULL THEN {"rsi:15m"} ELSE {})
        \cup (IF read["rsi:1h"] = NULL THEN {"rsi:1h"} ELSE {})

\* waitForRateLimit: the timestamps it keeps, and the instant its sleep ends
\* (NULL when it does not sleep)
waitForRateLimit(requestTimestamps, now) ==
    LET InWindowOf(ts) == now - ts < RATE_WINDOW
        kept == SelectSeq(requestTimestamps, InWindowOf)
    IN  [ requestTimestamps |-> kept,
          wake |-> IF Len(kept) >= TAAPI_RATE_LIMIT
                   THEN kept[1] + RATE_WINDOW + RATE_BUFFER ELSE NULL ]

\* fetch(...) is called: the request goes out; nothing is recorded yet
SendRequest(requestTimestamps, now) == requestTimestamps

\* recordRequest
recordRequest(requestTimestamps, now) == Append(requestTimestamps, now)

CoreUnchanged ==
    UNCHANGED <<buyCheck, entryCheck, externalRead, cfgSellPercent, symbols, market, inFlight, isRunning, cycles, botState>>

\* getIndicatorSnapshot up to its first await: the cache is read; if an
\* indicator is missing the rate limiter is asked, and the call either sleeps
\* or sends its bulk request.  The model starts no further call while MaxSent
\* requests of the current window are on record
GetIndicatorSnapshot(s) ==
    /\ calls.of[s].pc = "idle"
    /\ Len(calls.sent) < MaxSent
    /\ LET now == calls.now
           entries == indicatorService.cache[s]
           fill == tryFillFromCache(entries, EmptySnapshot, now)
           limit == waitForRateLimit(indicatorService.requestTimestamps, now)
           call == [NoCall EXCEPT !.snapshot = fill.snapshot]
           asking == [call EXCEPT !.requested = Requested(entries, now)]
       IN  IF fill.allCached
           THEN /\ indicatorService' = [indicatorService EXCEPT !.cache[s] = getCached(entries, now)]
                /\ calls' = [calls EXCEPT !.of[s] = [call EXCEPT !.pc = "return"]]
           ELSE IF limit.wake # NULL
           THEN /\ indicatorService' =
                      [indicatorService EXCEPT !.cache[s] = getCached(entries, now),
                                               !.requestTimestamps = limit.requestTimestamps]
                /\ calls' = [calls EXCEPT !.of[s] = [asking EXCEPT !.pc = "sleep",
                                                                    !.wake = limit.wake]]
           ELSE /\ indicatorService' =
                      [indicatorService EXCEPT !.cache[s] = getCached(entries, now),
                                               !.requestTimestamps =
                                                   SendRequest(limit.requestTimestamps, now)]
                /\ calls' = [calls EXCEPT !.of[s] = [asking EXCEPT !.pc = "wait"],
                                          !.sent = Append(@, now)]
    /\ CoreUnchanged

\* the sleep of waitForRateLimit is over: the bulk request is sent
Wake(s) ==
    /\ calls.of[s].pc = "sleep"
    /\ calls.now >= calls.of[s].wake
    /\ indicatorService' = [indicatorService EXCEPT !.requestTimestamps =
                                SendRequest(@, calls.now)]
    /\ calls' = [calls EXCEPT !.of[s].pc = "wait", !.sent = Append(@, calls.now)]
    /\ CoreUnchanged

\* the answers of the indicator source to a bulk request: every indicator asked
\* for, all but the hourly RSI, or all but the EMA200
Answers(requested) == {requested, requested \ {"rsi:1h"}, requested \ {"ema:4h"}}

\* the bulk request returns.  ok: the results are cached and the request is
\* recorded; otherwise (a status that is not ok, or fetch threw) fetchBulkMulti
\* returns null.  Then the snapshot is filled from the cache and returned
Response(s) ==
    /\ calls.of[s].pc = "wait"
    /\ \E ok \in BOOLEAN, results \in Answers(calls.of[s].requested) :
          LET now == calls.now
              entries == indicatorService.cache[s]
              set == IF ok THEN [k \in CacheKeys |-> IF k \in results THEN now ELSE entries[k]]
                     ELSE entries
              fill == tryFillFromCache(set, calls.of[s].snapshot, now)
          IN  /\ indicatorService' =
                    [indicatorService EXCEPT
                        !.cache[s] = getCached(set, now),
                        !.requestTimestamps = IF ok THEN recordRequest(@, now) ELSE @]
              /\ calls' = [calls EXCEPT !.of[s] = [NoCall EXCEPT !.pc = "return",
                                                                 !.snapshot = fill.snapshot]]
    /\ CoreUnchanged

\* the snapshot is returned to the tick
Return(s) ==
    /\ calls.of[s].pc = "return"
    /\ calls' = [calls EXCEPT !.of[s] = NoCall]
    /\ UNCHANGED indicatorService
    /\ CoreUnchanged

\* five seconds pass
Clock ==
    /\ calls.now < MaxTime
    /\ LET later == calls.now + 1
           StillInWindow(t) == later - t < RATE_WINDOW
       IN  calls' = [calls EXCEPT !.now = later, !.sent = SelectSeq(@, StillInWindow)]
    /\ UNCHANGED indicatorService
    /\ CoreUnchanged

\* the IndicatorSnapshot objects a returned snapshot can be: a field it left
\* null is null, a field it filled holds a value the source can have given
Readings(snapshot) ==
    LET Known(k, values) == IF snapshot[k] = NULL THEN {NULL} ELSE values
    IN  [ rsi15m : Known("rsi:15m", {GoodSnapshot.rsi15m, RecoveredSnapshot.rsi15m}),
          rsi1h : Known("rsi:1h", {GoodSnapshot.rsi15m, RecoveredSnapshot.rsi1h}),
          ema200_4h : Known("ema:4h", {GoodSnapshot.ema200_4h, RecoveredSnapshot.ema200_4h}),
          atr14_4h : Known("atr:4h", {GoodSnapshot.atr14_4h}),
          volumeRatio : Known("volratio:1h", {D}) ]

-----------------------------------------------------------------------------
(* CapitalManagerService.canExecuteBuy on its own *)

NoBuyCheck ==
    [ totalBalance |-> 0, currentCycleInvested |-> 0, minOrderSize |-> 0, available |-> 0,
      done |-> FALSE, result |-> [canBuy |-> FALSE, reason |-> "none"],
      amount |-> NULL, asked |-> <<>> ]

\* balances of 50, 100 and 1000 USDT: entry sizes 5, 10 and 100, exposure caps
\* 15, 30 and 300
CheckBalances == {50 * D, 100 * D, 1000 * D}

\* invested so far: nothing, exactly one entry below the cap of the 100 and of
\* the 1000 balance, and above every cap
CheckInvested == {0, 20 * D, 200 * D, 350 * D}

\* market.limits.cost.min as the broker may give it
CheckMinOrders == {MIN_ORDER_VALUE_USDT, 100 * D, 150 * D}

\* free quote balance
CheckAvailable == {0, 10 * D, 100 * D, 500 * D}

BuyChecks ==
    { [NoBuyCheck EXCEPT !.totalBalance = t, !.currentCycleInvested = c,
                         !.minOrderSize = m, !.available = a] :
        t \in CheckBalances, c \in CheckInvested, m \in CheckMinOrders, a \in CheckAvailable }

CanExecuteBuy ==
    /\ ~buyCheck.done
    /\ LET check == canExecuteBuy(buyCheck.totalBalance, buyCheck.currentCycleInvested,
                                  buyCheck.minOrderSize, buyCheck.available)
       IN  buyCheck' = [buyCheck EXCEPT
                          !.done = TRUE,
                          !.result = check,
                          !.amount = BuyAmount(buyCheck.totalBalance, check),
                          !.asked = BrokerCalls(buyCheck.totalBalance,
                                                buyCheck.currentCycleInvested,
                                                buyCheck.minOrderSize)]
    /\ UNCHANGED <<entryCheck, externalRead, indicatorService, calls, cfgSellPercent, symbols, market,
                   inFlight, isRunning, cycles, botState>>

-----------------------------------------------------------------------------
(* The entry decision on its own: IndicatorService.evaluateEntry and        *)
(* GridStrategy.evaluateSearching                                          *)

\* evaluateEntry(symbol, currentPrice).canEnter, on the snapshot it fetched
evaluateEntry(indicators, currentPrice) ==
    LET emaOk == indicators.ema200_4h # NULL /\ ~(currentPrice <= indicators.ema200_4h)
        rsi15mOk == indicators.rsi15m # NULL /\ indicators.rsi15m < ENTRY_RSI_THRESHOLD
        rsi1hOk == indicators.rsi1h # NULL /\ indicators.rsi1h < ENTRY_RSI_THRESHOLD
    IN  emaOk /\ (rsi15mOk \/ rsi1hOk)

NoEntryCheck ==
    [ currentPrice |-> 0, indicators |-> NoSnapshot, totalBalance |-> 0,
      done |-> FALSE, canEnter |-> FALSE, action |-> "NONE" ]

\* prices of 90, 100 and 120 around an EMA200 of 100
EntryPrices == {90 * D, 100 * D, 120 * D}

\* snapshots: each RSI unknown, oversold (30) or not (50); the EMA200 unknown
\* or 100; the volume ratio unknown, below, at or above 1.0
EntrySnapshots ==
    [ rsi15m : {NULL, 30, 50}, rsi1h : {NULL, 30, 50}, ema200_4h : {NULL, 100 * D},
      atr14_4h : {NULL}, volumeRatio : {NULL, 800, D, 1200} ]

EntryChecks ==
    { [NoEntryCheck EXCEPT !.currentPrice = p, !.indicators = i, !.totalBalance = 1000 * D] :
        p \in EntryPrices, i \in EntrySnapshots }

EvaluateEntry ==
    /\ ~entryCheck.done
    /\ entryCheck' = [entryCheck EXCEPT
                        !.done = TRUE,
                        !.canEnter = evaluateEntry(entryCheck.indicators,
                                                   entryCheck.currentPrice),
                        !.action = evaluateSearching(entryCheck.currentPrice,
                                                     entryCheck.indicators,
                                                     entryCheck.totalBalance)]
    /\ UNCHANGED <<buyCheck, externalRead, indicatorService, calls, cfgSellPercent, symbols, market,
                   inFlight, isRunning, cycles, botState>>

-----------------------------------------------------------------------------
(* The external reads on their own: withRetry and the calls it wraps        *)

\* EXCHANGE.MAX_RETRIES, EXCHANGE.RETRY_DELAY_MS
MAX_RETRIES == 3
RETRY_DELAY_MS == 1000

\* the reads a tick makes of the broker and of the indicator source
Reads ==
    { [fn |-> "getCurrentPrice", arg |-> "BTC"], [fn |-> "getCurrentPrice", arg |-> "ETH"],
      [fn |-> "getBalance", arg |-> "USDT"], [fn |-> "getTotalBalanceInUSDT", arg |-> "all"],
      [fn |-> "fetchBulkMulti", arg |-> "BTC"], [fn |-> "fetchBulkMulti", arg |-> "ETH"] }

\* the attempts a read makes of its external call: getCurrentPrice and
\* getBalance pass it to withRetry with EXCHANGE.MAX_RETRIES,
\* getTotalBalanceInUSDT awaits fetchBalance directly and fetchBulkMulti
\* awaits fetch directly
maxRetries(fn) ==
    IF fn \in {"getCurrentPrice", "getBalance"} THEN MAX_RETRIES ELSE 1

RECURSIVE Pow2(_)
Pow2(n) == IF n = 0 THEN 1 ELSE 2 * Pow2(n - 1)

\* withRetry: delayMs * Math.pow(2, attempt - 1)
backoff(attempt) == RETRY_DELAY_MS * Pow2(attempt - 1)

\* no read in progress
NoRead ==
    [ fn |-> "none", arg |-> "none", answers |-> <<>>, attempt |-> 0,
      status |-> "none", slept |-> <<>> ]

\* a read about to make its first attempt; answers[a] is what the external call
\* does when it is made for the a-th time
NewReads ==
    { [NoRead EXCEPT !.fn = r.fn, !.arg = r.arg, !.answers = a, !.attempt = 1,
                     !.status = "calling"] :
        r \in Reads, a \in [1..MAX_RETRIES -> {"ok", "throw"}] }

\* one attempt: the external call returns, or throws; a throw is followed by
\* the backoff sleep while attempts are left, and otherwise surfaces (thrown to
\* the caller, or logged and returned as null by fetchBulkMulti)
Attempt ==
    /\ externalRead.status = "calling"
    /\ externalRead' =
          IF externalRead.answers[externalRead.attempt] = "ok"
          THEN [externalRead EXCEPT !.status = "returned"]
          ELSE IF externalRead.attempt < maxRetries(externalRead.fn)
          THEN [externalRead EXCEPT !.status = "sleeping",
                                    !.slept = Append(@, backoff(externalRead.attempt))]
          ELSE [externalRead EXCEPT !.status = "failed"]
    /\ UNCHANGED <<buyCheck, entryCheck, indicatorService, calls, cfgSellPercent, symbols,
                   market, inFlight, isRunning, cycles, botState>>

\* the backoff sleep is over: the next attempt
BackoffOver ==
    /\ externalRead.status = "sleeping"
    /\ externalRead' = [externalRead EXCEPT !.status = "calling", !.attempt = @ + 1]
    /\ UNCHANGED <<buyCheck, entryCheck, indicatorService, calls, cfgSellPercent, symbols,
                   market, inFlight, isRunning, cycles, botState>>

-----------------------------------------------------------------------------
(* Specifications *)

Traded == {symbols[n] : n \in DOMAIN symbols}

InitWith(tradingSymbols, sellPercents, answers) ==
    /\ cfgSellPercent \in sellPercents
    /\ symbols = tradingSymbols
    /\ market = answers
    /\ inFlight = [i \in Invocations |-> IdleInv]
    /\ isRunning = [s \in Symbols |-> FALSE]
    /\ cycles = [s \in Symbols |-> <<>>]
    /\ botState = [k \in Scopes |-> NoRow]
    /\ indicatorService = NewIndicatorService
    /\ calls = NoCalls
    /\ buyCheck = NoBuyCheck
    /\ entryCheck = NoEntryCheck
    /\ externalRead = NoRead

Next ==
    \/ TimerFire
    \/ \E i \in Invocations : TickSkipped(i)
    \/ \E i \in Invocations : TickStart(i)
    \/ \E i \in Invocations : Gate(i)
    \/ \E i \in Invocations : Fetch(i)
    \/ \E i \in Invocations : FetchFails(i)
    \/ \E i \in Invocations : Risk(i)
    \/ \E i \in Invocations : Eval(i)
    \/ \E i \in Invocations : OrderReturn(i)
    \/ HourPasses

\* two symbols on one timer
\* the awaits of a tick in flight: each external call returns or throws
TickStep(i) ==
    Gate(i) \/ Fetch(i) \/ FetchFails(i) \/ Risk(i) \/ Eval(i) \/ OrderReturn(i)

\* every await of every invocation's tick is eventually over
CallsReturn == \A i \in Invocations : WF_vars(TickStep(i))

Init == InitWith(<<"BTC", "ETH">>, {100}, PairMarket)

Spec == Init /\ [][Next]_vars

\* one symbol through the whole life of its cycles
InitCycle == InitWith(<<"BTC">>, SellPercents, CycleMarket)

SpecCycle == InitCycle /\ [][Next]_vars

\* one symbol under the risk manager's pauses
InitRisk == InitWith(<<"BTC">>, {100}, RiskMarket)

SpecRisk == InitRisk /\ [][Next]_vars

\* one symbol while the balance falls through the warning band
InitWarning == InitWith(<<"BTC">>, {100}, WarningMarket)

SpecWarning == InitWarning /\ [][Next]_vars

\* two symbols on one timer while the balance falls in steps
InitDrawdown == InitWith(<<"BTC", "ETH">>, {100}, DrawdownMarket)

SpecDrawdown == InitDrawdown /\ [][Next]_vars

\* one symbol averaging down until its buys are used up
InitDca == InitWith(<<"BTC">>, {100}, DcaMarket)

SpecDca == InitDca /\ [][Next]_vars

\* two symbols on one timer, both averaging down
InitExposure == InitWith(<<"BTC", "ETH">>, {100}, ExposureMarket)

SpecExposure == InitExposure /\ [][Next]_vars

\* the getIndicatorSnapshot calls of one symbol's ticks against the indicator
\* source
NextIndicator ==
    \/ \E s \in Traded : GetIndicatorSnapshot(s)
    \/ \E s \in Traded : Wake(s)
    \/ \E s \in Traded : Response(s)
    \/ \E s \in Traded : Return(s)
    \/ Clock

SpecIndicator == InitCycle /\ [][NextIndicator]_vars

\* canExecuteBuy over the arguments and broker answers of BuyChecks
InitCapital ==
    /\ cfgSellPercent = 100
    /\ symbols = <<"BTC">>
    /\ market = CycleMarket
    /\ inFlight = [i \in Invocations |-> IdleInv]
    /\ isRunning = [s \in Symbols |-> FALSE]
    /\ cycles = [s \in Symbols |-> <<>>]
    /\ botState = [k \in Scopes |-> NoRow]
    /\ indicatorService = NewIndicatorService
    /\ calls = NoCalls
    /\ buyCheck \in BuyChecks
    /\ entryCheck = NoEntryCheck
    /\ externalRead = NoRead

NextCapital == CanExecuteBuy

SpecCapital == InitCapital /\ [][NextCapital]_vars

\* the entry decision over the prices and snapshots of EntryChecks
InitEntry ==
    /\ cfgSellPercent = 100
    /\ symbols = <<"BTC">>
    /\ market = CycleMarket
    /\ inFlight = [i \in Invocations |-> IdleInv]
    /\ isRunning = [s \in Symbols |-> FALSE]
    /\ cycles = [s \in Symbols |-> <<>>]
    /\ botState = [k \in Scopes |-> NoRow]
    /\ indicatorService = NewIndicatorService
    /\ calls = NoCalls
    /\ buyCheck = NoBuyCheck
    /\ entryCheck \in EntryChecks
    /\ externalRead = NoRead

NextEntry == EvaluateEntry

SpecEntry == InitEntry /\ [][NextEntry]_vars

\* each external read against every pattern of failures of its source
InitReads ==
    /\ cfgSellPercent = 100
    /\ symbols = <<"BTC", "ETH">>
    /\ market = PairMarket
    /\ inFlight = [i \in Invocations |-> IdleInv]
    /\ isRunning = [s \in Symbols |-> FALSE]
    /\ cycles = [s \in Symbols |-> <<>>]
    /\ botState = [k \in Scopes |-> NoRow]
    /\ indicatorService = NewIndicatorService
    /\ calls = NoCalls
    /\ buyCheck = NoBuyCheck
    /\ entryCheck = NoEntryCheck
    /\ externalRead \in NewReads

NextReads == Attempt \/ BackoffOver

SpecReads == InitReads /\ [][NextReads]_vars

-----------------------------------------------------------------------------
(* Properties *)

NonTerminal == {"ACTIVE", "PARTIAL_SELL", "TRAILING", "PAUSED"}

InBody(r) == r.pc \in {"gate", "create", "recover", "fetch", "risk", "mark", "eval", "order"}

\* C1: for every symbol at most one cycle is non-terminal at any time, and a
\* cycle row is added only by a tick whose getActiveCycle found none, while no
\* other cycle of the symbol is non-terminal, whatever ticks overlap
C1_OneActiveCycle ==
    [][\A s \in Symbols :
          /\ Cardinality({k \in DOMAIN cycles'[s] : cycles'[s][k].status \in NonTerminal}) <= 1
          /\ Len(cycles'[s]) > Len(cycles[s]) =>
                /\ \A k \in DOMAIN cycles[s] : cycles[s][k].status \notin NonTerminal
                /\ \E i \in Invocations :
                      /\ inFlight[i].pc = "eval"
                      /\ inFlight[i].cycle = 0
                      /\ Sym(i) = s
                      /\ inFlight'[i].pc = "order"]_vars

\* a second cycle is open after the first ran to its trailing sell, with two
\* invocations of executeTick in flight
C1_Witness ==
    /\ Len(cycles["BTC"]) = 2
    /\ cycles["BTC"][1].status = "COMPLETED"
    /\ cycles["BTC"][1].totalProfit # NULL
    /\ cycles["BTC"][2].status \in NonTerminal
    /\ \A i \in Invocations : inFlight[i].idx # 0

\* C2: whenever a cycle holds a quantity, its totalInvested and totalQuantity
\* are the sums over its recorded positions and its averagePrice is their
\* quotient, to the precision of the stored number
C2_AveragePrice ==
    \A s \in Symbols : \A k \in DOMAIN cycles[s] :
        LET c == cycles[s][k]
        IN  c.totalQuantity > 0 =>
              /\ c.totalInvested = SumField(c.positions, "investedAmount")
              /\ c.totalQuantity = SumField(c.positions, "quantity")
              /\ c.averagePrice = ToNumber(DecDiv(c.totalInvested, c.totalQuantity))

\* a cycle recomputed over two buys at different prices
C2_Witness ==
    \E k \in DOMAIN cycles["BTC"] :
        LET c == cycles["BTC"][k]
        IN  /\ Len(c.positions) = 2
            /\ c.buyCount = 2
            /\ c.positions[1].entryPrice # c.positions[2].entryPrice
            /\ c.averagePrice # c.positions[1].entryPrice
            /\ c.averagePrice # c.positions[2].entryPrice

\* C3: a non-terminal cycle's totalInvested is the sum of investedAmount over
\* its open (OPEN or PARTIALLY_CLOSED) positions, also after a partial sell
\* that closes positions
C3_TotalInvestedOpen ==
    \A s \in Symbols : \A k \in DOMAIN cycles[s] :
        LET c == cycles[s][k]
        IN  c.status \in NonTerminal =>
              c.totalInvested = SumField(OpenPositions(c), "investedAmount")

\* a partial sell of everything: the cycle lives on, its positions are closed,
\* its totalInvested still counts them
C3_StaleTotal ==
    \E k \in DOMAIN cycles["BTC"] :
        LET c == cycles["BTC"][k]
        IN  /\ c.status \in {"PARTIAL_SELL", "TRAILING"}
            /\ cfgSellPercent = D
            /\ OpenPositions(c) = <<>>
            /\ c.totalInvested > 0

Edges ==
    { <<"ACTIVE", "PARTIAL_SELL">>, <<"PARTIAL_SELL", "TRAILING">>,
      <<"TRAILING", "COMPLETED">>, <<"ACTIVE", "COMPLETED">>,
      <<"ACTIVE", "PAUSED">>, <<"PAUSED", "ACTIVE">> }

\* C4: a cycle row is created ACTIVE, its status moves only along ACTIVE ->
\* PARTIAL_SELL -> TRAILING -> COMPLETED, ACTIVE -> COMPLETED and ACTIVE <->
\* PAUSED; a COMPLETED row never changes again and no order is sent for it
C4_StatusEdges ==
    [][\A s \in Symbols :
          /\ Len(cycles'[s]) >= Len(cycles[s])
          /\ \A k \in DOMAIN cycles'[s] :
                IF k \in DOMAIN cycles[s]
                THEN /\ cycles'[s][k].status # cycles[s][k].status =>
                            <<cycles[s][k].status, cycles'[s][k].status>> \in Edges
                     /\ cycles[s][k].status = "COMPLETED" =>
                            /\ cycles'[s][k] = cycles[s][k]
                            /\ \A i \in Invocations :
                                  (inFlight'[i].pc = "order" /\ symbols[inFlight'[i].idx] = s)
                                      => inFlight'[i].cycle # k
                ELSE cycles'[s][k].status = "ACTIVE"]_vars

\* a cycle that went the whole way is COMPLETED and a later tick is evaluating
C4_Witness ==
    /\ Len(cycles["BTC"]) = 1
    /\ cycles["BTC"][1].status = "COMPLETED"
    /\ cycles["BTC"][1].partialSellDone
    /\ cycles["BTC"][1].totalProfit # NULL
    /\ \E i \in Invocations : inFlight[i].pc = "eval"

\* C5: while a cycle is TRAILING its trailingStopPrice and trailingHighPrice
\* never decrease; a tick at a price not above the high leaves both as they
\* are, a tick above it sets the high to the price and the stop to
\* price x (1 - trailingPercent)
C5_TrailingMonotone ==
    [][\A s \in Symbols : \A k \in DOMAIN cycles[s] :
          LET c == cycles[s][k]
              c2 == cycles'[s][k]
          IN  c.status = "TRAILING" =>
                /\ c2.trailingStopPrice >= c.trailingStopPrice
                /\ c2.trailingHighPrice >= c.trailingHighPrice
                /\ \A i \in Invocations :
                      ( /\ inFlight[i].pc = "eval"
                        /\ inFlight'[i].pc # "eval"
                        /\ Sym(i) = s
                        /\ inFlight[i].cycle = k ) =>
                      IF inFlight[i].price > c.trailingHighPrice
                      THEN /\ c2.trailingHighPrice = inFlight[i].price
                           /\ c2.trailingStopPrice =
                                 ToNumber(DecMul(inFlight[i].price,
                                                 D - GRID_TRAILING_STOP_PERCENT))
                      ELSE /\ c2.trailingHighPrice = c.trailingHighPrice
                           /\ c2.trailingStopPrice = c.trailingStopPrice]_vars

\* a stop armed at 111, raised by a tick at 113, and a tick now evaluating it
\* at a price between the stop and the high
C5_Witness ==
    \E k \in DOMAIN cycles["BTC"] : \E i \in Invocations :
        /\ cycles["BTC"][k].status = "TRAILING"
        /\ cycles["BTC"][k].trailingHighPrice = 113000
        /\ cycles["BTC"][k].trailingStopPrice > 111000
        /\ inFlight[i].pc = "eval"
        /\ inFlight[i].cycle = k
        /\ inFlight[i].price = 113000

\* C6: every order is sent while the GLOBAL row and the symbol's row are both
\* RUNNING, however the ticks of the symbols interleave
C6_NoOrderWhenPaused ==
    \A i \in Invocations :
        inFlight[i].pc = "order" => inFlight[i].orderRisk = "RUNNING"

\* one symbol's tick has sent a buy after the other symbol's tick paused GLOBAL
\* on drawdown
C6_OrderWhilePaused ==
    \E i \in Invocations :
        /\ inFlight[i].pc = "order"
        /\ inFlight[i].orderRisk = "PAUSED"
        /\ botState["GLOBAL"].state = "PAUSED_DRAWDOWN"

\* C7: canTrade allows exactly when GLOBAL is RUNNING and the symbol is RUNNING
\* or PAUSED_LATERAL with pausedUntil in the past; in that last case the
\* symbol's row becomes RUNNING with pausedUntil cleared; a denial changes no row
C7_CanTrade ==
    \A s \in Traded :
        LET check == canTrade(botState, s)
            expired == /\ botState[s].state = "PAUSED_LATERAL"
                       /\ botState[s].pausedUntil = PAST
        IN  /\ check.allowed <=>
                  /\ botState["GLOBAL"].state = "RUNNING"
                  /\ (botState[s].state = "RUNNING" \/ expired)
            /\ (check.allowed /\ expired) =>
                  /\ check.bs[s].state = "RUNNING"
                  /\ check.bs[s].pausedUntil = NULL
                  /\ check.bs["GLOBAL"] = botState["GLOBAL"]
            /\ ~check.allowed => check.bs = botState

\* a cycle closed with a low profit paused the symbol, the pause has run out,
\* and a tick of the symbol stands at the gate
C7_Witness ==
    /\ cycles["BTC"] # <<>>
    /\ cycles["BTC"][1].status = "COMPLETED"
    /\ Abs(cycles["BTC"][1].profitPercent) < RISK_LATERAL_PROFIT_THRESHOLD * 100
    /\ botState["GLOBAL"].state = "RUNNING"
    /\ botState["BTC"].state = "PAUSED_LATERAL"
    /\ botState["BTC"].pausedUntil = PAST
    /\ \E i \in Invocations : inFlight[i].pc = "gate"

\* C8: at most one tick body is in flight per symbol; a tick invoked while the
\* symbol's previous tick is running returns at once, changing nothing, and the
\* invocation moves on
C8_OneBodyPerSymbol ==
    [][/\ \A i, j \in Invocations :
             (i # j /\ InBody(inFlight'[i]) /\ InBody(inFlight'[j])) =>
                 symbols[inFlight'[i].idx] # symbols[inFlight'[j].idx]
       /\ \A i \in Invocations :
             ( /\ inFlight[i].pc = "call"
               /\ isRunning[Sym(i)]
               /\ inFlight'[i] # inFlight[i] ) =>
                 /\ inFlight'[i] = Advance(inFlight[i])
                 /\ UNCHANGED <<isRunning, cycles, botState>>]_vars

\* the timer fired again while the symbol's tick is waiting for its order
C8_Witness ==
    \E i, j \in Invocations :
        /\ inFlight[i].pc = "order"
        /\ inFlight[j].pc = "call"
        /\ Sym(j) = Sym(i)
        /\ isRunning[Sym(i)]

\* between a tick's balance read and the end of its order
InWindow(r) == r.pc \in {"risk", "mark", "eval", "order"}

\* C9: ticks of different symbols never overlap: while one symbol's tick is
\* between its balance read and the end of its order, no other symbol's tick
\* has read the balance or sent an order
C9_TicksSequential ==
    \A i, j \in Invocations :
        i # j => ~(InWindow(inFlight[i]) /\ InWindow(inFlight[j]))

\* two symbols' orders in flight at once, both sized from the same balance
C9_BothOrdering ==
    \E i, j \in Invocations :
        /\ i # j
        /\ inFlight[i].pc = "order"
        /\ inFlight[j].pc = "order"
        /\ Sym(i) # Sym(j)
        /\ inFlight[i].totalBalance = inFlight[j].totalBalance

\* C10: a tick calls the broker's order endpoint at most once; an order that
\* failed is not sent again
C10_OneOrderPerTick ==
    \A i \in Invocations : inFlight[i].orders <= 1

\* an initial buy failed and closed its cycle; the next cycle's buy is in flight
C10_Witness ==
    \E i \in Invocations :
        /\ inFlight[i].pc = "order"
        /\ inFlight[i].orders = 1
        /\ inFlight[i].cycle = 2
        /\ cycles["BTC"][1].status = "COMPLETED"
        /\ cycles["BTC"][1].positions = <<>>

\* the aggregates a cycle row keeps about its positions
Aggregates(c) ==
    <<c.totalInvested, c.totalQuantity, c.remainingQuantity, c.averagePrice, c.buyCount>>

\* C11: addPosition, partialClosePositions and fullClosePositions are all or
\* nothing.  In every step a cycle's positions and its aggregates change
\* together or not at all: with the positions as they were the aggregates are
\* as they were (a failed unit leaves no trace), a cycle that gained a position
\* has buyCount, totalInvested, totalQuantity and remainingQuantity already
\* counting it, and a cycle whose positions were sold down has its
\* remainingQuantity and its status already showing the sale
C11_LedgerAtomic ==
    [][\A s \in Symbols : \A k \in DOMAIN cycles[s] :
          LET c == cycles[s][k]
              c2 == cycles'[s][k]
              open2 == OpenPositions(c2)
          IN  /\ c2.positions = c.positions => Aggregates(c2) = Aggregates(c)
              /\ Len(c2.positions) > Len(c.positions) =>
                    /\ Len(c2.positions) = Len(c.positions) + 1
                    /\ c2.buyCount = Len(open2)
                    /\ c2.totalInvested = SumField(open2, "investedAmount")
                    /\ c2.totalQuantity = SumField(open2, "quantity")
                    /\ c2.remainingQuantity = SumField(open2, "remainingQuantity")
              /\ (Len(c2.positions) = Len(c.positions) /\ c2.positions # c.positions) =>
                    /\ c2.remainingQuantity = SumField(c2.positions, "remainingQuantity")
                    /\ c2.status \in {"PARTIAL_SELL", "COMPLETED"}
                    /\ c2.status = "PARTIAL_SELL" => c2.partialSellDone
                    /\ c2.status = "COMPLETED" => c2.totalProfit # NULL]_vars

\* a cycle of two buys after its partial sell: both units have run on it, and
\* a tick is waiting for the answer to its trailing sell
C11_Witness ==
    \E k \in DOMAIN cycles["BTC"] : \E i \in Invocations :
        LET c == cycles["BTC"][k]
        IN  /\ Len(c.positions) = 2
            /\ \A n \in 1..2 : c.positions[n].status = "PARTIALLY_CLOSED"
            /\ c.remainingQuantity = SumField(c.positions, "remainingQuantity")
            /\ inFlight[i].pc = "order"
            /\ inFlight[i].action = "TRAILING_SELL"
            /\ inFlight[i].cycle = k

Buys == {"OPEN_CYCLE", "DCA_BUY"}

RECURSIVE CommittedIn(_)
\* investedAmount of the open positions of the non-terminal cycles among cs
CommittedIn(cs) ==
    IF cs = <<>> THEN 0
    ELSE (IF Head(cs).status \in NonTerminal
          THEN SumField(OpenPositions(Head(cs)), "investedAmount") ELSE 0)
         + CommittedIn(Tail(cs))

\* capital committed to open positions, over all symbols
Exposure == CommittedIn(cycles["BTC"]) + CommittedIn(cycles["ETH"])

\* C12: whenever a tick sends a buy, the capital committed to open positions
\* over all non-terminal cycles of all symbols plus the amount of that buy is
\* at most CAPITAL_MAX_EXPOSURE x the total balance the tick decided with
C12_ExposureBounded ==
    [][\A i \in Invocations :
          ( /\ inFlight[i].pc = "eval"
            /\ inFlight'[i].pc = "order"
            /\ inFlight'[i].action \in Buys ) =>
              Exposure + ToNumber(calculateEntrySize(inFlight[i].totalBalance))
                  <= calculateMaxExposure(inFlight[i].totalBalance)]_vars

\* both symbols hold two buys each: 40% of the balance is committed under a
\* limit of 30%
C12_Overexposed ==
    /\ \A s \in Symbols :
          \E k \in DOMAIN cycles[s] :
              /\ cycles[s][k].status = "ACTIVE"
              /\ cycles[s][k].buyCount = 2
    /\ Exposure > calculateMaxExposure(1000000)

\* C13: a tick sends the initial buy of a new cycle only when capital is
\* sufficient as it decides: the entry size is at most the maximum exposure, at
\* least the broker's minimum order value, and at most the free quote balance
C13_OpenNeedsCapital ==
    \A i \in Invocations :
        (inFlight[i].pc = "order" /\ inFlight[i].action = "OPEN_CYCLE") =>
            LET entrySize == calculateEntrySize(inFlight[i].totalBalance)
            IN  /\ entrySize <= calculateMaxExposure(inFlight[i].totalBalance)
                /\ \A minOrderSize \in market.minOrder : entrySize >= minOrderSize
                /\ inFlight[i].free >= entrySize

\* the initial buy of 100 has been sent with nothing free on the account
C13_OpenWithoutFunds ==
    \E i \in Invocations :
        /\ inFlight[i].pc = "order"
        /\ inFlight[i].action = "OPEN_CYCLE"
        /\ inFlight[i].free = 0
        /\ calculateEntrySize(inFlight[i].totalBalance) = 100000
        /\ cycles[Sym(i)][inFlight[i].cycle].status = "ACTIVE"

Max(a, b) == IF a >= b THEN a ELSE b

\* the drawdown of the GLOBAL row: (peak - current) / peak
DrawdownNow ==
    IF botState["GLOBAL"].peakBalance = 0 THEN 0
    ELSE DecDiv(botState["GLOBAL"].peakBalance - botState["GLOBAL"].currentBalance,
                botState["GLOBAL"].peakBalance)

\* C14: the balance update keeps peakBalance the running maximum, and the
\* drawdown check that follows acts on drawdown = (peak - current) / peak: at
\* RISK_MAX_DRAWDOWN or more GLOBAL becomes PAUSED_DRAWDOWN and the tick ends
\* there; from 75% of the maximum up to it a warning is sent, GLOBAL keeps its
\* state and the tick goes on; below that nothing is sent and nothing changes
C14_DrawdownCheck ==
    [][\A i \in Invocations :
          LET r == inFlight[i]
              r2 == inFlight'[i]
              g == botState["GLOBAL"]
              g2 == botState'["GLOBAL"]
              dd == checkDrawdown(botState, DrawdownRead(r))
              inBand == /\ DrawdownNow * D >= RISK_MAX_DRAWDOWN * DRAWDOWN_WARNING_RATIO
                        /\ DrawdownNow < RISK_MAX_DRAWDOWN
          IN  /\ (r.pc = "fetch" /\ r2.pc = "risk") =>
                    /\ g2.currentBalance = r2.totalBalance
                    /\ g2.peakBalance = Max(g.peakBalance, r2.totalBalance)
              /\ (r.pc \in {"risk", "mark"} /\ r2 # r /\ r2.pc # "mark") =>
                    IF DrawdownNow >= RISK_MAX_DRAWDOWN
                    THEN /\ g2.state = "PAUSED_DRAWDOWN"
                         /\ r2 = Advance(r)
                         /\ cycles' = cycles
                    ELSE /\ g2.state = g.state
                         /\ g2.pauseNotices = g.pauseNotices
                         /\ ~dd.paused
                         /\ dd.warned <=> inBand]_vars

\* the balance fell from 1000 to 880 (12%: a warning, trading went on and a
\* cycle was opened) and then to 850 (15%, the maximum): GLOBAL is paused
C14_Witness ==
    /\ botState["GLOBAL"].state = "PAUSED_DRAWDOWN"
    /\ botState["GLOBAL"].peakBalance = 1000000
    /\ botState["GLOBAL"].currentBalance = 850000
    /\ botState["GLOBAL"].maxDrawdownHit = RISK_MAX_DRAWDOWN
    /\ \E k \in DOMAIN cycles["BTC"] :
          /\ cycles["BTC"][k].status = "ACTIVE"
          /\ cycles["BTC"][k].totalInvested = 88000

\* C15: the GLOBAL row's maxDrawdownHit never decreases, and once a drawdown
\* check has run it is at least the drawdown that check evaluated (as the
\* number the column can hold), before and after a pause, however the ticks
\* of the symbols interleave
C15_MaxDrawdownMonotone ==
    [][/\ botState'["GLOBAL"].maxDrawdownHit >= botState["GLOBAL"].maxDrawdownHit
       /\ \A i \in Invocations :
             ( /\ inFlight[i].pc \in {"risk", "mark"}
               /\ inFlight'[i] # inFlight[i]
               /\ inFlight'[i].pc # "mark" ) =>
                 botState'["GLOBAL"].maxDrawdownHit
                     >= ToNumber(DrawdownRead(inFlight[i]).drawdown)]_vars

\* GLOBAL is paused on a drawdown of 20% and its maxDrawdownHit reads 10%
C15_HighLowered ==
    /\ botState["GLOBAL"].state = "PAUSED_DRAWDOWN"
    /\ botState["GLOBAL"].peakBalance = 1000000
    /\ botState["GLOBAL"].currentBalance = 800000
    /\ botState["GLOBAL"].maxDrawdownHit = 100
    /\ \A i \in Invocations : ~InBody(inFlight[i])

\* C16: every entry into a paused state sends one pause notification and every
\* recovery one resume notification, and nothing is sent while a pause lasts:
\* for each scope the pause notifications not yet answered by a resume
\* notification number one while the scope is paused and none while it runs
C16_OneNoticePerPause ==
    \A k \in Scopes :
        botState[k].pauseNotices = IF botState[k].state = "RUNNING" THEN 0 ELSE 1

\* GLOBAL entered PAUSED_DRAWDOWN once and two pause notifications were sent
C16_PausedTwice ==
    /\ botState["GLOBAL"].state = "PAUSED_DRAWDOWN"
    /\ botState["GLOBAL"].pauseNotices = 2
    /\ \A i \in Invocations : ~InBody(inFlight[i])

\* the tick of symbol s that is running its risk checks, if there is one
AtRiskChecks(i, s) ==
    /\ inFlight[i].pc \in {"risk", "mark"}
    /\ Sym(i) = s

HasTrailingCycle(s) ==
    /\ getActiveCycle(cycles[s]) # 0
    /\ cycles[s][getActiveCycle(cycles[s])].status = "TRAILING"

\* C18: PAUSED_CRASH suspends new buys only.  A tick of a crash-paused symbol
\* whose cycle is TRAILING (GLOBAL running) goes on past the gate to read the
\* price, so that the stop is ratcheted or the cycle sold
C18_TrailingServedInCrash ==
    [][\A i \in Invocations :
          ( /\ inFlight[i].pc = "gate"
            /\ inFlight'[i] # inFlight[i]
            /\ botState["GLOBAL"].state = "RUNNING"
            /\ botState[Sym(i)].state = "PAUSED_CRASH"
            /\ HasTrailingCycle(Sym(i)) ) =>
              inFlight'[i].pc = "fetch"]_vars

\* a crash-paused symbol with a TRAILING cycle: its tick was denied at the gate
\* and is left with the recovery check only
C18_StopNotServed ==
    \E i \in Invocations :
        /\ inFlight[i].pc = "recover"
        /\ botState["GLOBAL"].state = "RUNNING"
        /\ botState[Sym(i)].state = "PAUSED_CRASH"
        /\ HasTrailingCycle(Sym(i))
        /\ inFlight[i].rsi = 30

\* C19: a symbol leaves PAUSED_CRASH only by the RSI recovery check of one of
\* its ticks.  The RSI the tick holds is the snapshot's 15m value, or its 1h
\* value when the 15m one is null; if it is not null and above
\* ENTRY_RSI_RECOVERY the symbol's unresolved crash events are resolved and the
\* symbol is RUNNING, otherwise its row and its events stay as they are
C19_CrashRecovery ==
    [][\A s \in Traded :
          /\ (botState[s].state = "PAUSED_CRASH" /\ botState'[s].state # "PAUSED_CRASH") =>
                \E i \in Invocations :
                    /\ inFlight[i].pc = "recover"
                    /\ Sym(i) = s
                    /\ inFlight'[i] = Advance(inFlight[i])
          /\ \A i \in Invocations :
                /\ (inFlight[i].pc = "gate" /\ inFlight'[i].pc = "recover" /\ Sym(i) = s) =>
                      /\ botState[s].state = "PAUSED_CRASH"
                      /\ \E snapshot \in market.snapshots[s] :
                            inFlight'[i].rsi = IF snapshot.rsi15m # NULL THEN snapshot.rsi15m
                                               ELSE snapshot.rsi1h
                /\ (inFlight[i].pc = "recover" /\ inFlight'[i] # inFlight[i] /\ Sym(i) = s) =>
                      IF inFlight[i].rsi # NULL /\ inFlight[i].rsi > ENTRY_RSI_RECOVERY
                      THEN /\ botState'[s].state = "RUNNING"
                           /\ botState'[s].crashEvents = 0
                      ELSE botState'[s] = botState[s]]_vars

\* a crash-paused symbol with its unresolved event, and a tick holding a
\* recovered RSI of 50 about to run the recovery check
C19_Witness ==
    \E i \in Invocations :
        /\ inFlight[i].pc = "recover"
        /\ inFlight[i].rsi = 50
        /\ botState[Sym(i)].state = "PAUSED_CRASH"
        /\ botState[Sym(i)].crashEvents = 1

\* C20: whenever a cycle is completed by its closing sale, the symbol's lateral
\* detector has taken it into account: consecutiveLowProfitCycles is 0 if
\* abs(profitPercent) reaches the lateral threshold, otherwise one more than
\* before, or 0 with the symbol paused PAUSED_LATERAL when that count reaches
\* RISK_LATERAL_CYCLE_COUNT
C20_EveryCompletionCounted ==
    [][\A s \in Traded : \A n \in DOMAIN cycles[s] :
          ( /\ cycles[s][n].status # "COMPLETED"
            /\ cycles'[s][n].status = "COMPLETED"
            /\ cycles'[s][n].totalProfit # NULL ) =>
              LET isLow == Abs(cycles'[s][n].profitPercent) < RISK_LATERAL_PROFIT_THRESHOLD * 100
                  newCount == IF isLow THEN botState[s].consecutiveLowProfitCycles + 1 ELSE 0
              IN  IF newCount >= RISK_LATERAL_CYCLE_COUNT
                  THEN /\ botState'[s].consecutiveLowProfitCycles = 0
                       /\ botState'[s].state = "PAUSED_LATERAL"
                  ELSE botState'[s].consecutiveLowProfitCycles = newCount]_vars

\* the closing sale of a TRAILING cycle is at the broker at a price that ends
\* the cycle with a profit below the lateral threshold, the symbol RUNNING
C20_LowProfitClosePending ==
    \E i \in Invocations :
        /\ inFlight[i].pc = "order"
        /\ inFlight[i].action = "TRAILING_SELL"
        /\ botState[Sym(i)].state = "RUNNING"
        /\ LET closed == fullClosePositions(cycles[Sym(i)][inFlight[i].cycle], inFlight[i].price)
           IN  /\ closed.status = "COMPLETED"
               /\ Abs(closed.profitPercent) < RISK_LATERAL_PROFIT_THRESHOLD * 100

\* C21: in every state each symbol's consecutiveLowProfitCycles is below
\* RISK_LATERAL_CYCLE_COUNT (reaching the count pauses the symbol and resets
\* the counter in one step, also when a write fails), and a symbol that is
\* PAUSED_LATERAL carries a pausedUntil
C21_LateralPauseAtomic ==
    \A s \in Traded :
        /\ botState[s].consecutiveLowProfitCycles < RISK_LATERAL_CYCLE_COUNT
        /\ botState[s].state = "PAUSED_LATERAL" => botState[s].pausedUntil # NULL

\* a cycle closed with a low profit, the count was written and has reached the
\* configured count, and the symbol is RUNNING with no pause notification sent
C21_CountedNotPaused ==
    /\ cycles["BTC"] # <<>>
    /\ cycles["BTC"][1].status = "COMPLETED"
    /\ cycles["BTC"][1].totalProfit # NULL
    /\ botState["BTC"].consecutiveLowProfitCycles >= RISK_LATERAL_CYCLE_COUNT
    /\ botState["BTC"].state = "RUNNING"
    /\ botState["BTC"].pauseNotices = 0

\* quantity of the cycle's positions already sold
RECURSIVE SoldQuantity(_)
SoldQuantity(ps) ==
    IF ps = <<>> THEN 0
    ELSE (Head(ps).quantity - Head(ps).remainingQuantity) + SoldQuantity(Tail(ps))

\* C22: when a cycle completes after a partial sell, its totalProfit is the
\* value received from all its sells less totalInvested: at least what the
\* partial sell brought at targetSellPrice (the lowest price a partial sell is
\* decided at) plus the closing sale, less totalInvested; and it is positive
\* when the closing sale too is above the average price
C22_ProfitCountsAllSells ==
    [][\A i \in Invocations :
          LET r == inFlight[i]
              s == Sym(i)
              c == cycles[s][r.cycle]
              c2 == cycles'[s][r.cycle]
              received == DecMul(SoldQuantity(c.positions), c.targetSellPrice)
                          + DecMul(c.remainingQuantity, r.price)
          IN  ( /\ r.pc = "order"
                /\ r.action = "TRAILING_SELL"
                /\ c.partialSellDone
                /\ c2.status = "COMPLETED"
                /\ c.status # "COMPLETED" ) =>
                  /\ c2.totalProfit >= ToNumber(received - c.totalInvested) - NumGrid
                  /\ r.price > c.averagePrice => c2.totalProfit > 0]_vars

\* the closing sale of a cycle whose partial sell was made above its average
\* price is at the broker at a price above the average price as well, and the
\* profit the ledger will record for the cycle is negative
C22_GainRecordedAsLoss ==
    \E i \in Invocations :
        LET r == inFlight[i]
            c == cycles[Sym(i)][r.cycle]
        IN  /\ r.pc = "order"
            /\ r.action = "TRAILING_SELL"
            /\ c.partialSellDone
            /\ SoldQuantity(c.positions) > 0
            /\ c.targetSellPrice > c.averagePrice
            /\ r.price > c.averagePrice
            /\ fullClosePositions(c, r.price).totalProfit < 0

\* C23: no more than TAAPI_RATE_LIMIT requests go out to the indicator source
\* in any window of 15 seconds, whether they succeed or fail, and a call that
\* needs a request while the window is full sleeps until the oldest request of
\* the window has left it
C23_RateLimited ==
    [][/\ Len(calls'.sent) <= TAAPI_RATE_LIMIT
       /\ \A s \in Traded :
             ( /\ calls.of[s].pc = "idle"
               /\ calls'.of[s].pc \in {"sleep", "wait"}
               /\ Len(calls.sent) >= TAAPI_RATE_LIMIT ) =>
                 /\ calls'.of[s].pc = "sleep"
                 /\ calls'.of[s].wake >= calls.sent[1] + RATE_WINDOW]_vars

\* two requests went out within one window: the first failed, and the call
\* after it was let through while the first was still inside the window
C23_WindowOverrun ==
    /\ Len(calls.sent) > TAAPI_RATE_LIMIT
    /\ indicatorService.requestTimestamps = <<>>

\* C24: whenever a call reads the cache, each snapshot field it fills comes
\* from an entry whose age at that instant is within TAAPI_CACHE_TTL, and no
\* entry older than that is left in the symbol's cache: an expired entry is
\* treated as missing and removed
C24_NoExpiredEntryServed ==
    [][\A s \in Traded :
          LET c == calls.of[s]
              c2 == calls'.of[s]
              now == calls.now
              reads == \/ c.pc = "idle" /\ c2.pc # "idle"
                       \/ c.pc = "wait" /\ c2.pc = "return"
          IN  reads =>
                \A k \in CacheKeys :
                    /\ (c2.snapshot[k] # NULL /\ (c.pc = "idle" \/ c2.snapshot[k] # c.snapshot[k])) =>
                          /\ now - c2.snapshot[k] <= TAAPI_CACHE_TTL
                          /\ c2.snapshot[k] = indicatorService'.cache[s][k]
                    /\ indicatorService'.cache[s][k] # NULL =>
                          now - indicatorService'.cache[s][k] <= TAAPI_CACHE_TTL]_vars

\* the hourly RSI was fetched by a later request than the EMA; by now a read
\* has found the EMA's entry expired and removed it, the RSI's is still there
C24_Witness ==
    \E s \in Traded :
        /\ indicatorService.cache[s]["ema:4h"] = NULL
        /\ indicatorService.cache[s]["rsi:1h"] # NULL
        /\ calls.now - indicatorService.cache[s]["rsi:1h"] <= TAAPI_CACHE_TTL

\* C25: every scope has at most one BotState row, whatever ticks overlap, and
\* a scope's row starts as RUNNING with nothing recorded
C25_OneRowPerScope ==
    [][\A k \in Scopes :
          /\ botState'[k].rows <= 1
          /\ (botState[k].rows = 0 /\ botState'[k].rows > 0 /\ botState'[k].state # "RUNNING") =>
                botState'[k].state \in {"PAUSED_CRASH", "PAUSED_LATERAL"}]_vars

\* two ticks found no GLOBAL row and each created one
C25_TwoGlobalRows ==
    /\ botState["GLOBAL"].rows = 2
    /\ botState["GLOBAL"].state = "RUNNING"

\* C26: canExecuteBuy approves, with amount = entrySize, iff projected exposure
\* is within the cap, entrySize reaches the broker's minimum and the free
\* balance covers entrySize; otherwise it refuses with the reason of the first
\* of these that fails, having asked the broker for nothing a later check needs
C26_BuyChecksInOrder ==
    buyCheck.done =>
        LET entrySize == (buyCheck.totalBalance * CAPITAL_ENTRY_PERCENT) \div D
            maxExposure == (buyCheck.totalBalance * CAPITAL_MAX_EXPOSURE) \div D
            exposureOk == buyCheck.currentCycleInvested + entrySize <= maxExposure
            minimumOk == entrySize >= buyCheck.minOrderSize
            balanceOk == buyCheck.available >= entrySize
        IN  /\ buyCheck.result.canBuy <=> (exposureOk /\ minimumOk /\ balanceOk)
            /\ buyCheck.result.canBuy => buyCheck.amount = entrySize
            /\ ~buyCheck.result.canBuy => buyCheck.amount = NULL
            /\ ~exposureOk =>
                  buyCheck.result.reason = "exposure" /\ buyCheck.asked = <<>>
            /\ exposureOk /\ ~minimumOk =>
                  /\ buyCheck.result.reason = "minimum"
                  /\ buyCheck.asked = <<"getMinOrderSize">>
            /\ exposureOk /\ minimumOk /\ ~balanceOk =>
                  /\ buyCheck.result.reason = "balance"
                  /\ buyCheck.asked = <<"getMinOrderSize", "getBalance">>

\* a buy refused for the broker's minimum although the free balance would not
\* have covered it either
C26_Witness ==
    /\ buyCheck.done
    /\ buyCheck.result.reason = "minimum"
    /\ buyCheck.available < (buyCheck.totalBalance * CAPITAL_ENTRY_PERCENT) \div D
    /\ buyCheck.asked = <<"getMinOrderSize">>

\* C27: a tick goes to the broker with a DCA buy only for an ACTIVE cycle that
\* it evaluated with price < targetSellPrice, price <= nextBuyPrice,
\* buyCount < maxBuys, a known EMA200 below the price and the capital
\* manager's approval; no cycle ever has more buys than maxBuys
C27_DcaBuyConditions ==
    [][/\ \A i \in Invocations :
            (inFlight[i].pc = "eval" /\ inFlight'[i].pc = "order"
                /\ inFlight'[i].action = "DCA_BUY") =>
                LET r == inFlight'[i]
                    c == cycles[Sym(i)][r.cycle]
                IN  /\ r.cycle > 0
                    /\ c.status = "ACTIVE"
                    /\ r.price < c.targetSellPrice
                    /\ r.price <= c.nextBuyPrice
                    /\ c.buyCount < c.maxBuys
                    /\ r.ema200 # NULL
                    /\ r.price > r.ema200
                    /\ \E m \in market.minOrder :
                          canExecuteBuy(r.totalBalance, c.totalInvested, m, r.free).canBuy
       /\ \A s \in Symbols : \A k \in 1..Len(cycles'[s]) :
            cycles'[s][k].buyCount <= cycles'[s][k].maxBuys]_vars

\* a cycle with all its buys made is evaluated again at or below nextBuyPrice
C27_MaxBuysReached ==
    \E i \in Invocations :
        /\ inFlight[i].pc = "eval"
        /\ inFlight[i].cycle > 0
        /\ LET c == cycles[Sym(i)][inFlight[i].cycle]
           IN  /\ c.status = "ACTIVE"
               /\ c.buyCount = c.maxBuys
               /\ c.buyCount > 1
               /\ inFlight[i].price <= c.nextBuyPrice

\* the ledger after buys of quantity 1 at 100 and at 95 in a cycle opened with
\* a 3% grid
C28_Example ==
    LET first == addPosition(createCycle(GRID_DROP_PERCENT),
                             [quantity |-> D, entryPrice |-> 100 * D,
                              investedAmount |-> 100 * D, buyNumber |-> 1])
    IN  addPosition(first, [quantity |-> D, entryPrice |-> 95 * D,
                            investedAmount |-> 95 * D, buyNumber |-> 2])

\* C28: after every buy that reached the ledger, nextBuyPrice is that buy's
\* entry price x (1 - gridPercent) with the gridPercent the cycle was opened
\* with, which no step changes, and targetSellPrice is the average price of the
\* buys x (1 + profitTarget); buys of 1 at 100 and at 95 on a 3% grid give
\* an average of 97.5 and a next buy at 92.15
C28_GridAfterBuy ==
    [][/\ \A s \in Symbols : \A k \in 1..Len(cycles[s]) :
            LET c == cycles[s][k]
                after == cycles'[s][k]
                n == Len(after.positions)
                bought == after.positions[n]
                invested == SumField(after.positions, "investedAmount")
                quantity == SumField(after.positions, "quantity")
            IN  /\ after.gridPercent = c.gridPercent
                /\ n = Len(c.positions) + 1 =>
                      /\ after.nextBuyPrice =
                            ToNumber((bought.entryPrice * (D - c.gridPercent)) \div D)
                      /\ after.averagePrice = ToNumber((invested * D) \div quantity)
                      /\ after.targetSellPrice =
                            ToNumber((((invested * D) \div quantity)
                                        * (D + GRID_PROFIT_TARGET)) \div D)
       /\ C28_Example.averagePrice = 97500
       /\ C28_Example.nextBuyPrice = 92150]_vars

\* a second buy, below the first, in a cycle opened on the narrower grid, at
\* a price for which the wider one would be derived
C28_Witness ==
    \E s \in Symbols : \E k \in 1..Len(cycles[s]) :
        LET c == cycles[s][k]
        IN  /\ Len(c.positions) = 2
            /\ c.gridPercent = GRID_DROP_PERCENT
            /\ adaptGridPercent(VolatileSnapshot.atr14_4h, c.positions[2].entryPrice)
                  = GRID_DROP_PERCENT_HIGH_VOL
            /\ c.positions[2].entryPrice < c.positions[1].entryPrice
            /\ c.nextBuyPrice < c.averagePrice
            /\ c.status = "ACTIVE"

\* a position with 2.0 remaining after a partial sell of one half
C29_Example ==
    PartialClosePosition([ quantity |-> 2 * D, remainingQuantity |-> 2 * D,
                           entryPrice |-> 100 * D, investedAmount |-> 200 * D,
                           buyNumber |-> 1, status |-> "OPEN" ], D \div 2)

\* C29: the partial sell of a cycle leaves each of its open positions with
\* r x (1 - sellPercent) of its remaining quantity r, CLOSED if that is zero
\* and PARTIALLY_CLOSED otherwise, and leaves the cycle in PARTIAL_SELL with
\* partialSellDone set and remainingQuantity the sum of what the positions
\* keep; 2.0 remaining sold by one half leaves 1.0
C29_PartialSell ==
    [][/\ \A s \in Symbols : \A k \in 1..Len(cycles[s]) :
            LET c == cycles[s][k]
                after == cycles'[s][k]
            IN  (~c.partialSellDone /\ after.partialSellDone) =>
                  /\ after.status = "PARTIAL_SELL"
                  /\ Len(after.positions) = Len(c.positions)
                  /\ \A j \in 1..Len(c.positions) :
                        LET p == c.positions[j]
                            q == after.positions[j]
                            r == p.remainingQuantity
                        IN  IF p.status \in {"OPEN", "PARTIALLY_CLOSED"}
                            THEN /\ q.remainingQuantity =
                                       ToNumber((r * (D - cfgSellPercent)) \div D)
                                 /\ q.status = IF q.remainingQuantity = 0 THEN "CLOSED"
                                               ELSE "PARTIALLY_CLOSED"
                            ELSE q = p
                  /\ after.remainingQuantity = SumField(after.positions, "remainingQuantity")
       /\ C29_Example.remainingQuantity = D
       /\ C29_Example.status = "PARTIALLY_CLOSED"]_vars

\* a cycle of two buys after its partial sell, both positions sold in part
C29_Witness ==
    \E s \in Symbols : \E k \in 1..Len(cycles[s]) :
        LET c == cycles[s][k]
        IN  /\ c.status = "PARTIAL_SELL"
            /\ c.partialSellDone
            /\ Len(c.positions) = 2
            /\ \A j \in 1..2 :
                  /\ c.positions[j].status = "PARTIALLY_CLOSED"
                  /\ c.positions[j].remainingQuantity < c.positions[j].quantity
            /\ c.remainingQuantity > 0

\* C30: the step that records a partial sell leaves the cycle with its
\* trailing stop armed at the price of that sale: trailingHighPrice is the
\* price and trailingStopPrice is price x (1 - trailingPercent)
C30_ArmedAtPartialSell ==
    [][\A i \in Invocations :
          (inFlight[i].pc = "order" /\ inFlight[i].action = "PARTIAL_SELL") =>
              LET r == inFlight[i]
                  c == cycles[Sym(i)][r.cycle]
                  after == cycles'[Sym(i)][r.cycle]
              IN  (~c.partialSellDone /\ after.partialSellDone) =>
                     /\ after.trailingHighPrice = ToNumber(r.price)
                     /\ after.trailingStopPrice =
                           ToNumber((r.price * (D - GRID_TRAILING_STOP_PERCENT)) \div D)]_vars

\* between two ticks: a cycle after its partial sell with no trailing stop
C30_UnarmedBetweenTicks ==
    \E s \in Traded :
        /\ ~isRunning[s]
        /\ \A i \in Invocations : inFlight[i].pc = "idle"
        /\ \E k \in 1..Len(cycles[s]) :
              /\ cycles[s][k].partialSellDone
              /\ cycles[s][k].status = "PARTIAL_SELL"
              /\ cycles[s][k].remainingQuantity > 0
              /\ cycles[s][k].trailingHighPrice = NULL
              /\ cycles[s][k].trailingStopPrice = NULL

\* the fetched indicators a symbol's cache does not validly hold now
Missing(s) ==
    {k \in FetchedKeys :
        \/ indicatorService.cache[s][k] = NULL
        \/ calls.now - indicatorService.cache[s][k] > TAAPI_CACHE_TTL}

\* C31: a getIndicatorSnapshot call that finds all four indicators validly
\* cached returns without a request; any other call sends one bulk request and
\* no second one, that request asks for every indicator that was missing, and
\* what a successful response brought is in the cache and in the snapshot the
\* call returns
C31_OneBatchedFetch ==
    [][\A s \in Traded :
          LET call == calls.of[s]
              after == calls'.of[s]
              sentNow == Len(calls'.sent) = Len(calls.sent) + 1
                            /\ calls'.now = calls.now
          IN  /\ (call.pc = "idle" /\ after.pc # "idle") =>
                    IF Missing(s) = {}
                    THEN after.pc = "return" /\ calls'.sent = calls.sent
                    ELSE /\ after.pc \in {"sleep", "wait"}
                         /\ Missing(s) \subseteq after.requested
                         /\ sentNow <=> after.pc = "wait"
              /\ (call.pc = "sleep" /\ after.pc # "sleep") =>
                    after.pc = "wait" /\ sentNow /\ after.requested = call.requested
              /\ (call.pc = "wait" /\ after.pc # "wait") =>
                    /\ after.pc = "return"
                    /\ calls'.sent = calls.sent
                    /\ \A k \in FetchedKeys :
                          (/\ indicatorService'.cache[s][k] # indicatorService.cache[s][k]
                           /\ indicatorService'.cache[s][k] # NULL) =>
                              /\ k \in call.requested
                              /\ indicatorService'.cache[s][k] = calls.now
                              /\ after.snapshot[k] = calls.now
              /\ (call.pc = "return" /\ after.pc # "return") =>
                    after.pc = "idle" /\ calls'.sent = calls.sent]_vars

\* a bulk request for the hourly RSI alone, the other three being cached
C31_Witness ==
    \E s \in Traded :
        /\ calls.of[s].pc = "wait"
        /\ calls.of[s].requested = {"rsi:1h"}
        /\ \A k \in FetchedKeys \ {"rsi:1h"} : calls.of[s].snapshot[k] # NULL

\* C32: a bulk request that fails leaves the cache without a new entry and
\* the call returns its snapshot with every indicator it had asked for still
\* null; a tick without a cycle that is handed a snapshot with no EMA200, or
\* with neither RSI, decides WAIT
C32_FetchFailureDegrades ==
    [][\A s \in Traded :
          LET call == calls.of[s]
              after == calls'.of[s]
              before == indicatorService.cache[s]
              failed == /\ call.pc = "wait" /\ after.pc # "wait"
                        /\ indicatorService'.requestTimestamps =
                              indicatorService.requestTimestamps
          IN  /\ failed =>
                    /\ after.pc = "return"
                    /\ \A k \in CacheKeys :
                          \/ indicatorService'.cache[s][k] = before[k]
                          \/ /\ indicatorService'.cache[s][k] = NULL
                             /\ calls.now - before[k] > TAAPI_CACHE_TTL
                    /\ \A k \in FetchedKeys :
                          call.snapshot[k] = NULL => after.snapshot[k] = NULL
              /\ after.pc = "return" =>
                    \A indicators \in Readings(after.snapshot) :
                       \A currentPrice \in market.prices[s], totalBalance \in market.balances :
                          (\/ indicators.ema200_4h = NULL
                           \/ (indicators.rsi15m = NULL /\ indicators.rsi1h = NULL)) =>
                             evaluateSearching(currentPrice, indicators, totalBalance) = "WAIT"]_vars

\* a call returns after its only request failed: nothing cached, nothing
\* recorded, every field null
C32_Witness ==
    \E s \in Traded :
        /\ calls.of[s].pc = "return"
        /\ calls.of[s].snapshot = EmptySnapshot
        /\ indicatorService.cache[s] = EmptySnapshot
        /\ indicatorService.requestTimestamps = <<>>
        /\ Len(calls.sent) > 0

RECURSIVE FailuresBeforeOk(_, _)
FailuresBeforeOk(answers, a) ==
    IF a > Len(answers) \/ answers[a] = "ok" THEN 0
    ELSE 1 + FailuresBeforeOk(answers, a + 1)

\* C34: a read of price, balance, total balance or indicators whose call fails
\* is attempted again, up to three attempts, after sleeps of the base delay
\* doubled each time; it returns at the first attempt that succeeds, and its
\* failure surfaces only after the third attempt has failed
C34_ReadsRetried ==
    LET failures == FailuresBeforeOk(externalRead.answers, 1)
    IN  /\ externalRead.status = "returned" =>
              /\ externalRead.attempt = failures + 1
              /\ externalRead.slept = [a \in 1..failures |-> RETRY_DELAY_MS * Pow2(a - 1)]
        /\ externalRead.status = "failed" =>
              /\ externalRead.attempt = 3
              /\ failures = 3
              /\ externalRead.slept = <<RETRY_DELAY_MS, 2 * RETRY_DELAY_MS>>

\* the total balance read fails at its first attempt, which a second attempt
\* would have survived
C34_GivenUpAtOnce ==
    /\ externalRead.fn = "getTotalBalanceInUSDT"
    /\ externalRead.status = "failed"
    /\ externalRead.attempt = 1
    /\ externalRead.slept = <<>>
    /\ externalRead.answers[2] = "ok"

InitLive == InitWith(<<"BTC">>, {100}, LiveMarket)

\* one symbol, overlapping invocations, every external call returning
SpecLive == InitLive /\ [][Next]_vars /\ CallsReturn

InitAudit == InitWith(<<"BTC">>, {100}, AuditMarket)

SpecAudit == InitAudit /\ [][Next]_vars

\* C35: between ticks, every cycle's recorded remainingQuantity is the net
\* quantity the broker has bought minus sold for that cycle (to within one
\* step of the number grid), whether orders fill by half or a ledger write
\* after a filled order fails
C35_LedgerMatchesBroker ==
    (\A i \in Invocations : inFlight[i].pc = "idle") =>
        \A s \in Traded : \A k \in 1..Len(cycles[s]) :
            Abs(cycles[s][k].remainingQuantity - cycles[s][k].held) < NumGrid

\* a filled buy the ledger never recorded has been repeated by a later tick:
\* the cycle records two buys and the broker has executed three
C35_OrderRepeated ==
    /\ \A i \in Invocations : inFlight[i].pc = "idle"
    /\ \E s \in Traded : \E k \in 1..Len(cycles[s]) :
          /\ cycles[s][k].status = "ACTIVE"
          /\ ~cycles[s][k].partialSellDone
          /\ cycles[s][k].unrecorded = 1
          /\ cycles[s][k].buyCount = 2
          /\ cycles[s][k].held > cycles[s][k].remainingQuantity

\* C36: a cycle with status TRAILING always has a trailingHighPrice and a
\* trailingStopPrice, the stop being high x (1 - trailingPercent) as a stored
\* number; the high never falls while the cycle is TRAILING, and every tick
\* that evaluates the cycle leaves the high at or above the price it saw
C36_StopFollowsHigh ==
    /\ [](\A s \in Traded : \A k \in DOMAIN cycles[s] :
             LET c == cycles[s][k]
             IN  c.status = "TRAILING" =>
                    /\ c.trailingHighPrice # NULL
                    /\ c.trailingStopPrice # NULL
                    /\ c.trailingStopPrice =
                          ToNumber(DecMul(c.trailingHighPrice, D - GRID_TRAILING_STOP_PERCENT)))
    /\ [][\A s \in Traded : \A k \in DOMAIN cycles[s] :
             LET c == cycles[s][k]
                 after == cycles'[s][k]
             IN  after.status = "TRAILING" =>
                    /\ c.status = "TRAILING" => after.trailingHighPrice >= c.trailingHighPrice
                    /\ \A i \in Invocations :
                          ( /\ inFlight[i].pc = "eval"
                            /\ inFlight'[i].pc # "eval"
                            /\ Sym(i) = s
                            /\ inFlight[i].cycle = k ) =>
                          after.trailingHighPrice >= inFlight[i].price]_vars

\* between ticks, a cycle bought at 100 whose stop has followed the price to
\* 113: the high is 113 and the stop 113 x (1 - trailingPercent)
C36_Witness ==
    /\ \A i \in Invocations : inFlight[i].pc = "idle"
    /\ \E k \in DOMAIN cycles["BTC"] :
          /\ cycles["BTC"][k].status = "TRAILING"
          /\ cycles["BTC"][k].averagePrice = 100000
          /\ cycles["BTC"][k].trailingHighPrice = 113000
          /\ cycles["BTC"][k].trailingStopPrice = 111310

\* C37: the broker executes at most one partial sell for a cycle, and from the
\* moment partialSellDone is true until the cycle is COMPLETED its buyCount,
\* totalInvested and averagePrice do not change
C37_OnePartialSellThenFrozen ==
    /\ [](\A s \in Traded : \A k \in DOMAIN cycles[s] : cycles[s][k].partialSells <= 1)
    /\ [][\A s \in Traded : \A k \in DOMAIN cycles[s] :
             LET c == cycles[s][k]
                 after == cycles'[s][k]
             IN  (c.partialSellDone /\ after.status # "COMPLETED") =>
                    /\ after.buyCount = c.buyCount
                    /\ after.totalInvested = c.totalInvested
                    /\ after.averagePrice = c.averagePrice]_vars

\* a partial sell whose ledger write failed has been executed again: the
\* broker has sold part of the cycle twice
C37_SoldTwice ==
    \E s \in Traded : \E k \in DOMAIN cycles[s] :
        /\ cycles[s][k].partialSells = 2
        /\ cycles[s][k].partialSellDone
        /\ cycles[s][k].unrecorded = 1

C39_DrawdownPauseIsFinal ==
    [][botState["GLOBAL"].state = "PAUSED_DRAWDOWN" =>
          /\ botState'["GLOBAL"].state = "PAUSED_DRAWDOWN"
          /\ \A i \in Invocations :
                /\ inFlight[i].pc \in {"gate", "create"} => inFlight'[i].pc # "fetch"
                /\ inFlight'[i].pc = "order" =>
                      /\ inFlight[i].pc = "order"
                      /\ inFlight'[i].orders = inFlight[i].orders
          /\ \A s \in Traded : \A k \in DOMAIN cycles[s] :
                cycles'[s][k].remainingQuantity >= cycles[s][k].remainingQuantity]_vars

\* the GLOBAL state is PAUSED_DRAWDOWN and a tick that passed the gate before
\* the pause is at its order call
C39_OrderAfterPause ==
    /\ botState["GLOBAL"].state = "PAUSED_DRAWDOWN"
    /\ \E i \in Invocations : inFlight[i].pc = "order"

\* C40: with every external call returning, a symbol's in-flight flag that is
\* set is eventually cleared; the flag is set exactly while one tick of the
\* symbol is in flight, never two; and an invocation that skips the symbol
\* leaves every flag as it is
C40_FlagReleased ==
    /\ (isRunning["BTC"] ~> ~isRunning["BTC"])
    /\ (isRunning["ETH"] ~> ~isRunning["ETH"])
    /\ [](\A s \in Traded :
             LET ticks == {i \in Invocations : InBody(inFlight[i]) /\ Sym(i) = s}
             IN  /\ Cardinality(ticks) <= 1
                 /\ isRunning[s] <=> ticks # {})
    /\ [][\A i \in Invocations :
             ( /\ inFlight[i].pc = "call"
               /\ isRunning[Sym(i)]
               /\ inFlight'[i] # inFlight[i] ) => isRunning' = isRunning]_vars

\* BTC's tick is in flight at its order call and a later invocation of
\* executeTick has arrived at BTC's tick(), which it will skip
C40_Witness ==
    /\ isRunning["BTC"]
    /\ \E i, j \in Invocations :
          /\ i # j
          /\ inFlight[i].pc = "order" /\ inFlight[i].idx = 1
          /\ inFlight[j].pc = "call" /\ inFlight[j].idx = 1

====
